---- MODULE Spec2Model ----
(***************************************************************************)
(* Pose Transform Tool: the pose/transform math of src/src/utils/posemath.ts *)
(* and the App state of src/src/App.tsx that feeds it.  The state of the   *)
(* App is its two useState cells, the memo cells of its useMemo and        *)
(* useCallback hooks, and the rotation mode of the PoseInput of each card. *)
(* The functions of posemath.ts are also run on their own, on arguments    *)
(* drawn from bounded sets (SpecCalls).  The components below the App are  *)
(* followed each by a specification of its own: the fields, buttons and    *)
(* Euler state of the PoseInputs (SpecPoseInput), the Copy buttons of the  *)
(* MatrixDisplay and the ResultCard (SpecCopy), and the camera and grid of *)
(* the PoseVisualizer3D (SpecScene, SpecSceneFair).                        *)
(*                                                                         *)
(* Numbers.  A JavaScript number is modelled exactly, as a rational        *)
(* multiple of the square root of a square-free positive integer,          *)
(*        [n |-> n, d |-> d, k |-> k]   stands for   (n / d) * sqrt(k),    *)
(* with d > 0, gcd(n, d) = 1 and k = 1 when n = 0.  This holds every       *)
(* rational and the quaternions of the usual rotations (sqrt(2)/2, ...).   *)
(* d = 0 marks the non-finite values: NaN, +Infinity, -Infinity.  A sum of *)
(* two different surds is not of this form: it is the marker Unrep, some   *)
(* finite number the model does not know (so Unrep + NaN is NaN).  No      *)
(* action stores Unrep in a pose; the memoized values hold it only for a   *)
(* few pairs of quaternions that are not normalized (ModelExact), and the  *)
(* Euler angles of a PoseInput hold it for quaternions whose angles are    *)
(* not among the represented ones.                                         *)
(* Rounding of IEEE doubles and the sign of zero are not modelled.         *)
(***************************************************************************)
EXTENDS Integers, Sequences, FiniteSets, TLC

VARIABLES
  inputPose,     \* App: useState, the input pose
  transform,     \* App: useState, the transform
  zeroDetGuard,  \* the build of three guards decompose against determinant 0
  call,          \* a call of a PoseMath function: its arguments and its outcome
  memo,          \* App: for each useMemo / useCallback cell, the poses its value
                 \* was computed from at the render that last computed it
  rotationMode,  \* PoseInput: useState, of the PoseCard and of the TransformCard
  eulerOrder,    \* PoseInput: useState, of each card
  eulerAngles,   \* PoseInput: useState, of each card
  useDegrees,    \* PoseInput: useState, of each card
  copied,        \* MatrixDisplay: copied; ResultCard: copiedPos, copiedQuat
  collapsed,     \* MatrixDisplay: useState, the panel is collapsed
  writes,        \* the clipboard writes of each Copy button that are not settled
  timers,        \* the timers of each Copy button that have not fired: when
                 \* each is due, in ms
  clock,         \* the time, in ms
  consoleErrors, \* the number of errors logged on the console
  scene          \* PoseVisualizer3D: the camera, the orbit controls, the grid
                 \* and the refs of the component

\* the Euler state of the two PoseInputs
eulerVars == <<eulerOrder, eulerAngles, useDegrees>>

\* the state of the Copy buttons of the MatrixDisplay and the ResultCard
copyVars == <<copied, collapsed, writes, timers, clock, consoleErrors>>

\* the state of the PoseVisualizer3D
sceneVars == <<scene>>

\* the state of the components outside the two PoseInputs
outsideVars == <<copyVars, sceneVars>>

\* the state of the components below the App that Spec does not follow
componentVars == <<eulerVars, outsideVars>>

vars == <<inputPose, transform, zeroDetGuard, call, memo, rotationMode, componentVars>>

-----------------------------------------------------------------------------
(* Arithmetic of JavaScript numbers *)

Abs(i) == IF i < 0 THEN -i ELSE i

RECURSIVE GCD(_, _)
GCD(a, b) == IF b = 0 THEN a ELSE GCD(b, a % b)

NaN == [n |-> 0, d |-> 0, k |-> 1]
PInf == [n |-> 1, d |-> 0, k |-> 1]
NInf == [n |-> -1, d |-> 0, k |-> 1]
Unrep == [n |-> 0, d |-> 0, k |-> 0]

IsNum(a) == a.d > 0
IsNaN(a) == a = NaN
IsInf(a) == a = PInf \/ a = NInf

\* (n / d) * sqrt(k) in lowest terms, d > 0
Mk(n, d, k) ==
  IF n = 0 THEN [n |-> 0, d |-> 1, k |-> 1]
  ELSE LET g == GCD(Abs(n), d) IN [n |-> n \div g, d |-> d \div g, k |-> k]

Rat(n, d) == Mk(n, d, 1)
Int2Num(i) == Mk(i, 1, 1)
Zero == Int2Num(0)
One == Int2Num(1)
Two == Int2Num(2)
Half == Rat(1, 2)
Quarter == Rat(1, 4)

Sign(a) == IF a.n > 0 THEN 1 ELSE IF a.n < 0 THEN -1 ELSE 0

\* the integers of the model stay below MaxInt: x * y does when Fits(x, y)
MaxInt == 1000000000
Fits(x, y) == y = 0 \/ Abs(x) <= MaxInt \div Abs(y)

\* unary minus
Neg(a) == IF a = NaN \/ a = Unrep THEN a ELSE [a EXCEPT !.n = -a.n]

\* a + b
Add(a, b) ==
  IF a = NaN \/ b = NaN THEN NaN
  ELSE IF a = Unrep \/ b = Unrep THEN Unrep
  ELSE IF IsInf(a) /\ IsInf(b) THEN (IF a = b THEN a ELSE NaN)
  ELSE IF IsInf(a) THEN a
  ELSE IF IsInf(b) THEN b
  ELSE IF a.n = 0 THEN b
  ELSE IF b.n = 0 THEN a
  ELSE IF a.k # b.k THEN Unrep
  ELSE LET g == GCD(a.d, b.d)
           fa == b.d \div g
           fb == a.d \div g
       IN IF Fits(a.d, fa) /\ Fits(2 * a.n, fa) /\ Fits(2 * b.n, fb)
          THEN Mk(a.n * fa + b.n * fb, a.d * fa, a.k)
          ELSE Unrep

\* a - b
Sub(a, b) == Add(a, Neg(b))

\* a * b
Mul(a, b) ==
  IF a = NaN \/ b = NaN THEN NaN
  ELSE IF a = Unrep \/ b = Unrep THEN Unrep
  ELSE IF IsInf(a) \/ IsInf(b) THEN
    (IF Sign(a) * Sign(b) > 0 THEN PInf
     ELSE IF Sign(a) * Sign(b) < 0 THEN NInf ELSE NaN)
  ELSE IF a.n = 0 \/ b.n = 0 THEN Zero
  ELSE LET g == GCD(a.k, b.k)
           g1 == GCD(Abs(a.n), b.d)
           g2 == GCD(Abs(b.n), a.d)
           an == a.n \div g1
           bn == b.n \div g2
           ad == a.d \div g2
           bd == b.d \div g1
           ak == a.k \div g
           bk == b.k \div g
       IN IF Fits(an, bn) /\ Fits(an * bn, g) /\ Fits(ad, bd) /\ Fits(ak, bk)
          THEN Mk(an * bn * g, ad * bd, ak * bk)
          ELSE Unrep

\* 1 / a
Inv(a) ==
  IF a = Unrep \/ a = NaN THEN a
  ELSE IF IsInf(a) THEN Zero
  ELSE IF a.n = 0 THEN PInf
  ELSE IF Fits(a.n, a.k) THEN Mk(Sign(a) * a.d, Abs(a.n) * a.k, a.k)
  ELSE Unrep

\* a / b
Div(a, b) == Mul(a, Inv(b))

\* the model can decide a < b: always, but for two different surds of the
\* same sign whose squares a2, b2 it cannot represent
ComparableSq(a, b, a2, b2) ==
  /\ a # Unrep
  /\ b # Unrep
  /\ IsNum(a) /\ IsNum(b) =>
       \/ a.n = 0 \/ b.n = 0 \/ Sign(a) # Sign(b)
       \/ a.k = b.k /\ Fits(a.n, b.d) /\ Fits(b.n, a.d)
       \/ /\ a.k # b.k
          /\ a2 # Unrep
          /\ b2 # Unrep
          /\ Fits(a2.n, b2.d)
          /\ Fits(b2.n, a2.d)

Comparable(a, b) == ComparableSq(a, b, Mul(a, a), Mul(b, b))

\* a < b, two different surds of the same sign compared by their squares a2, b2
LtSq(a, b, a2, b2) ==
  IF ~ComparableSq(a, b, a2, b2) THEN FALSE
  ELSE IF ~IsNum(a) \/ ~IsNum(b) THEN
    /\ IsInf(a) \/ IsNum(a)
    /\ IsInf(b) \/ IsNum(b)
    /\ a # b
    /\ a = NInf \/ b = PInf
  ELSE IF a.n = 0 \/ b.n = 0 \/ Sign(a) # Sign(b) THEN Sign(a) < Sign(b)
  ELSE IF a.k = b.k THEN a.n * b.d < b.n * a.d
  ELSE IF Sign(a) > 0 THEN a2.n * b2.d < b2.n * a2.d
  ELSE b2.n * a2.d < a2.n * b2.d

\* a < b  (false when either side is NaN); read only when Comparable(a, b)
Lt(a, b) == LtSq(a, b, Mul(a, a), Mul(b, b))

Gt(a, b) == Lt(b, a)

\* Math.abs
MathAbs(a) == IF a = Unrep \/ a = NaN THEN a ELSE [a EXCEPT !.n = Abs(a.n)]

\* the largest s with s * s dividing m, searched from the factor s up
RECURSIVE SqPart(_, _)
SqPart(m, s) ==
  IF s * s > m THEN 1
  ELSE IF m % (s * s) = 0 THEN s * SqPart(m \div (s * s), s)
  ELSE SqPart(m, s + 1)

\* the model takes roots of fractions of numerator and denominator <= MaxRoot
MaxRoot == 10000

\* Math.sqrt: sqrt(n/d) = (sn / (sd * kd)) * sqrt(kn * kd), n = sn^2 kn, d = sd^2 kd
MathSqrt(a) ==
  IF a = Unrep \/ a = NaN \/ a = PInf THEN a
  ELSE IF a = NInf \/ a.n < 0 THEN NaN
  ELSE IF a.n = 0 THEN Zero
  ELSE IF a.k # 1 \/ a.n > MaxRoot \/ a.d > MaxRoot THEN Unrep
  ELSE LET sn == SqPart(a.n, 2)
           sd == SqPart(a.d, 2)
           kn == a.n \div (sn * sn)
           kd == a.d \div (sd * sd)
       IN Mk(sn, sd * kd, kn * kd)

-----------------------------------------------------------------------------
(* Value types: Vector3, Quaternion, Matrix4 (16 elements, column-major;     *)
(* elements[i] of the code is El(m, i) here), Pose                           *)

Vec(x, y, z) == [x |-> x, y |-> y, z |-> z]
Quat(x, y, z, w) == [x |-> x, y |-> y, z |-> z, w |-> w]
Pose(p, q) == [position |-> p, quaternion |-> q]
El(m, i) == m[i + 1]

\* the two PoseInput components: of the PoseCard and of the TransformCard
Cards == {"pose", "transform"}

\* Matrix4.compose(position, quaternion, scale) of three
compose(position, quaternion, scale) ==
  LET x == quaternion.x
      y == quaternion.y
      z == quaternion.z
      w == quaternion.w
      x2 == Add(x, x)
      y2 == Add(y, y)
      z2 == Add(z, z)
      xx == Mul(x, x2)
      xy == Mul(x, y2)
      xz == Mul(x, z2)
      yy == Mul(y, y2)
      yz == Mul(y, z2)
      zz == Mul(z, z2)
      wx == Mul(w, x2)
      wy == Mul(w, y2)
      wz == Mul(w, z2)
      sx == scale.x
      sy == scale.y
      sz == scale.z
  IN << Mul(Sub(One, Add(yy, zz)), sx), Mul(Add(xy, wz), sx), Mul(Sub(xz, wy), sx), Zero,
        Mul(Sub(xy, wz), sy), Mul(Sub(One, Add(xx, zz)), sy), Mul(Add(yz, wx), sy), Zero,
        Mul(Add(xz, wy), sz), Mul(Sub(yz, wx), sz), Mul(Sub(One, Add(xx, yy)), sz), Zero,
        position.x, position.y, position.z, One >>

\* mutant: the product of the upper-left 3x3 blocks only, without the term of
\* the fourth column of a and fourth row of b
multiplyMatricesNoFourth(ae, be) ==
  [idx \in 1..16 |->
     LET i == (idx - 1) % 4
         j == (idx - 1) \div 4
     IN Add(Add(Mul(ae[i + 1], be[4 * j + 1]),
                Mul(ae[4 + i + 1], be[4 * j + 2])),
            Mul(ae[8 + i + 1], be[4 * j + 3]))]

\* Matrix4.multiply(m) = multiplyMatrices(this, m): entry (row i, column j) is
\* a(i,0) b(0,j) + a(i,1) b(1,j) + a(i,2) b(2,j) + a(i,3) b(3,j)
multiplyMatrices(ae, be) ==
  [idx \in 1..16 |->
     LET i == (idx - 1) % 4
         j == (idx - 1) \div 4
     IN Add(Add(Add(Mul(El(ae, i), El(be, 4 * j)),
                    Mul(El(ae, 4 + i), El(be, 4 * j + 1))),
                Mul(El(ae, 8 + i), El(be, 4 * j + 2))),
            Mul(El(ae, 12 + i), El(be, 4 * j + 3)))]

Mul3(a, b, c) == Mul(Mul(a, b), c)
Sum6(a, b, c, d, e, f) == Add(Add(Add(Add(Add(a, b), c), d), e), f)

\* Matrix4.determinant of three
determinant(te) ==
  LET n11 == El(te, 0)
      n12 == El(te, 4)
      n13 == El(te, 8)
      n14 == El(te, 12)
      n21 == El(te, 1)
      n22 == El(te, 5)
      n23 == El(te, 9)
      n24 == El(te, 13)
      n31 == El(te, 2)
      n32 == El(te, 6)
      n33 == El(te, 10)
      n34 == El(te, 14)
      n41 == El(te, 3)
      n42 == El(te, 7)
      n43 == El(te, 11)
      n44 == El(te, 15)
  IN Add(Add(Add(
       Mul(n41, Sum6(Mul3(n14, n23, n32), Neg(Mul3(n13, n24, n32)), Neg(Mul3(n14, n22, n33)),
                     Mul3(n12, n24, n33), Mul3(n13, n22, n34), Neg(Mul3(n12, n23, n34)))),
       Mul(n42, Sum6(Mul3(n11, n23, n34), Neg(Mul3(n11, n24, n33)), Mul3(n14, n21, n33),
                     Neg(Mul3(n13, n21, n34)), Mul3(n13, n24, n31), Neg(Mul3(n14, n23, n31))))),
       Mul(n43, Sum6(Mul3(n11, n24, n32), Neg(Mul3(n11, n22, n34)), Neg(Mul3(n14, n21, n32)),
                     Mul3(n12, n21, n34), Mul3(n14, n22, n31), Neg(Mul3(n12, n24, n31))))),
       Mul(n44, Sum6(Neg(Mul3(n13, n22, n31)), Neg(Mul3(n11, n23, n32)), Mul3(n11, n22, n33),
                     Mul3(n13, n21, n32), Neg(Mul3(n12, n21, n33)), Mul3(n12, n23, n31))))

\* Vector3.length
length3(x, y, z) == MathSqrt(Add(Add(Mul(x, x), Mul(y, y)), Mul(z, z)))

\* mutant: in the branch of a positive trace, w = 0.25 * s for w = 0.25 / s
setFromRotationMatrixTimes(te) ==
  LET m11 == El(te, 0)
      m12 == El(te, 4)
      m13 == El(te, 8)
      m21 == El(te, 1)
      m22 == El(te, 5)
      m23 == El(te, 9)
      m31 == El(te, 2)
      m32 == El(te, 6)
      m33 == El(te, 10)
      trace == Add(Add(m11, m22), m33)
  IN IF \/ ~Comparable(trace, Zero)
        \/ ~Comparable(m11, m22) \/ ~Comparable(m11, m33) \/ ~Comparable(m22, m33)
     THEN Quat(Unrep, Unrep, Unrep, Unrep)
     ELSE IF Gt(trace, Zero) THEN
       LET s == Div(Half, MathSqrt(Add(trace, One)))
       IN Quat(Mul(Sub(m32, m23), s), Mul(Sub(m13, m31), s), Mul(Sub(m21, m12), s),
               Mul(Quarter, s))
     ELSE IF Gt(m11, m22) /\ Gt(m11, m33) THEN
       LET s == Mul(Two, MathSqrt(Sub(Sub(Add(One, m11), m22), m33)))
       IN Quat(Mul(Quarter, s), Div(Add(m12, m21), s), Div(Add(m13, m31), s),
               Div(Sub(m32, m23), s))
     ELSE IF Gt(m22, m33) THEN
       LET s == Mul(Two, MathSqrt(Sub(Sub(Add(One, m22), m11), m33)))
       IN Quat(Div(Add(m12, m21), s), Mul(Quarter, s), Div(Add(m23, m32), s),
               Div(Sub(m13, m31), s))
     ELSE
       LET s == Mul(Two, MathSqrt(Sub(Sub(Add(One, m33), m11), m22)))
       IN Quat(Div(Add(m13, m31), s), Div(Add(m23, m32), s), Mul(Quarter, s),
               Div(Sub(m21, m12), s))

\* Quaternion.setFromRotationMatrix of three
setFromRotationMatrix(te) ==
  LET m11 == El(te, 0)
      m12 == El(te, 4)
      m13 == El(te, 8)
      m21 == El(te, 1)
      m22 == El(te, 5)
      m23 == El(te, 9)
      m31 == El(te, 2)
      m32 == El(te, 6)
      m33 == El(te, 10)
      trace == Add(Add(m11, m22), m33)
  IN IF \/ ~Comparable(trace, Zero)
        \/ ~Comparable(m11, m22) \/ ~Comparable(m11, m33) \/ ~Comparable(m22, m33)
     THEN Quat(Unrep, Unrep, Unrep, Unrep)
     ELSE IF Gt(trace, Zero) THEN
       LET s == Div(Half, MathSqrt(Add(trace, One)))
       IN Quat(Mul(Sub(m32, m23), s), Mul(Sub(m13, m31), s), Mul(Sub(m21, m12), s),
               Div(Quarter, s))
     ELSE IF Gt(m11, m22) /\ Gt(m11, m33) THEN
       LET s == Mul(Two, MathSqrt(Sub(Sub(Add(One, m11), m22), m33)))
       IN Quat(Mul(Quarter, s), Div(Add(m12, m21), s), Div(Add(m13, m31), s),
               Div(Sub(m32, m23), s))
     ELSE IF Gt(m22, m33) THEN
       LET s == Mul(Two, MathSqrt(Sub(Sub(Add(One, m22), m11), m33)))
       IN Quat(Div(Add(m12, m21), s), Mul(Quarter, s), Div(Add(m23, m32), s),
               Div(Sub(m13, m31), s))
     ELSE
       LET s == Mul(Two, MathSqrt(Sub(Sub(Add(One, m33), m11), m22)))
       IN Quat(Div(Add(m13, m31), s), Div(Add(m23, m32), s), Mul(Quarter, s),
               Div(Sub(m21, m12), s))

\* Matrix4.decompose of three, from the determinant det and the lengths
\* sx0, sy, sz of the first three columns: the position and the quaternion
\* it writes.  guard: the build of three returns the identity rotation for a
\* matrix of determinant 0 (newer releases); without it the scales divide by
\* zero.
decomposeScaled(te, guard, det, sx0, sy, sz) ==
  LET sx == IF det = Unrep THEN Unrep ELSE IF Lt(det, Zero) THEN Neg(sx0) ELSE sx0
      m1 == [idx \in 1..16 |->
               IF idx \in 1..3 THEN Mul(te[idx], Inv(sx))
               ELSE IF idx \in 5..7 THEN Mul(te[idx], Inv(sy))
               ELSE IF idx \in 9..11 THEN Mul(te[idx], Inv(sz))
               ELSE te[idx]]
      position == Vec(El(te, 12), El(te, 13), El(te, 14))
  IN IF det = Unrep THEN Pose(position, Quat(Unrep, Unrep, Unrep, Unrep))
     ELSE IF guard /\ det = Zero THEN Pose(position, Quat(Zero, Zero, Zero, One))
     ELSE Pose(position, setFromRotationMatrix(m1))

\* Matrix4.decompose of three
decompose(te, guard) ==
  decomposeScaled(te, guard, determinant(te),
                  length3(El(te, 0), El(te, 1), El(te, 2)),
                  length3(El(te, 4), El(te, 5), El(te, 6)),
                  length3(El(te, 8), El(te, 9), El(te, 10)))

\* Quaternion.length
quatLength(q) ==
  MathSqrt(Add(Add(Add(Mul(q.x, q.x), Mul(q.y, q.y)), Mul(q.z, q.z)), Mul(q.w, q.w)))

\* mutant: the components divided by the squared length
quatNormalizeSq(q) ==
  LET l == quatLength(q)
  IN IF l = Zero THEN Quat(Zero, Zero, Zero, One)
     ELSE LET r == Inv(Mul(l, l))
          IN Quat(Mul(q.x, r), Mul(q.y, r), Mul(q.z, r), Mul(q.w, r))

\* Quaternion.normalize of three
quatNormalize(q) ==
  LET l == quatLength(q)
  IN IF l = Zero THEN Quat(Zero, Zero, Zero, One)
     ELSE LET r == Inv(l)
          IN Quat(Mul(q.x, r), Mul(q.y, r), Mul(q.z, r), Mul(q.w, r))

-----------------------------------------------------------------------------
(* src/src/utils/posemath.ts *)

\* mutant: the quaternion built with w first, Quaternion(w, x, y, z)
createTransformMatrixWFirst(pose) ==
  compose(Vec(pose.position.x, pose.position.y, pose.position.z),
          Quat(pose.quaternion.w, pose.quaternion.x, pose.quaternion.y, pose.quaternion.z),
          Vec(One, One, One))

createTransformMatrix(pose) ==
  compose(Vec(pose.position.x, pose.position.y, pose.position.z),
          Quat(pose.quaternion.x, pose.quaternion.y, pose.quaternion.z, pose.quaternion.w),
          Vec(One, One, One))

\* mutant: the operands swapped (transform * pose, the world-frame product)
applyTransformSwapped(poseMatrix, tMatrix) ==
  [idx \in 1..16 |->
     LET i == (idx - 1) % 4
         j == (idx - 1) \div 4
     IN Add(Add(Add(Mul(tMatrix[i + 1], poseMatrix[4 * j + 1]),
                    Mul(tMatrix[4 + i + 1], poseMatrix[4 * j + 2])),
                Mul(tMatrix[8 + i + 1], poseMatrix[4 * j + 3])),
            Mul(tMatrix[12 + i + 1], poseMatrix[4 * j + 4]))]

applyTransform(poseMatrix, tMatrix) ==
  multiplyMatrices(poseMatrix, tMatrix)

\* mutant: the position read from the last row (elements 3, 7, 11) for the
\* last column (elements 12, 13, 14)
matrixToPoseLastRow(matrix) ==
  Pose(Vec(El(matrix, 3), El(matrix, 7), El(matrix, 11)),
       decompose(matrix, zeroDetGuard).quaternion)

matrixToPose(matrix) == decompose(matrix, zeroDetGuard)

\* mutant: the elements read in storage order, which shows the transpose
matrixToArrayTransposed(matrix) ==
  << << El(matrix, 0), El(matrix, 1), El(matrix, 2), El(matrix, 3) >>,
     << El(matrix, 4), El(matrix, 5), El(matrix, 6), El(matrix, 7) >>,
     << El(matrix, 8), El(matrix, 9), El(matrix, 10), El(matrix, 11) >>,
     << El(matrix, 12), El(matrix, 13), El(matrix, 14), El(matrix, 15) >> >>

matrixToArray(matrix) ==
  << << El(matrix, 0), El(matrix, 4), El(matrix, 8), El(matrix, 12) >>,
     << El(matrix, 1), El(matrix, 5), El(matrix, 9), El(matrix, 13) >>,
     << El(matrix, 2), El(matrix, 6), El(matrix, 10), El(matrix, 14) >>,
     << El(matrix, 3), El(matrix, 7), El(matrix, 11), El(matrix, 15) >> >>

normalizeQuaternion(q) == quatNormalize(Quat(q.x, q.y, q.z, q.w))

quaternionMagnitude(q) ==
  MathSqrt(Add(Add(Add(Mul(q.x, q.x), Mul(q.y, q.y)), Mul(q.z, q.z)), Mul(q.w, q.w)))

\* the default tolerance 0.001, as tolerance = ToleranceNum / ToleranceDen
ToleranceNum == 1
ToleranceDen == 1000
DefaultTolerance == Rat(ToleranceNum, ToleranceDen)

\* mutant: <= for <
isQuaternionNormalizedLe(q, tolerance) ==
  LET mag == quaternionMagnitude(q)
      diff == Sub(mag, One)
  IN IF diff # Unrep THEN ~Lt(tolerance, MathAbs(diff))
     ELSE ~Lt(mag, Sub(One, tolerance)) /\ ~Lt(Add(One, tolerance), mag)

\* Math.abs(mag - 1) < tolerance.  When mag is a surd, mag - 1 is not a
\* number of the model and the same test is made as 1 - tol < mag < 1 + tol.
isQuaternionNormalized(q, tolerance) ==
  LET mag == quaternionMagnitude(q)
      diff == Sub(mag, One)
  IN IF diff # Unrep THEN Lt(MathAbs(diff), tolerance)
     ELSE Lt(Sub(One, tolerance), mag) /\ Lt(mag, Add(One, tolerance))

identityPose == Pose(Vec(Zero, Zero, Zero), Quat(Zero, Zero, Zero, One))

identityTransform == identityPose

-----------------------------------------------------------------------------
(* Objects.  The functions of posemath.ts take and return objects (Matrix4, *)
(* Pose and quaternion literals).  A heap is the sequence of the objects    *)
(* that exist, a reference is an index in it; a function run on a heap      *)
(* yields the heap it leaves and the reference it returns.                  *)

\* new: one more object on the heap, and its reference
Alloc(heap, object) == [heap |-> Append(heap, object), ref |-> Len(heap) + 1]

\* Matrix4.clone(): new Matrix4().fromArray(this.elements)
Matrix4_clone(heap, this) == Alloc(heap, heap[this])

\* Matrix4.multiply(m): this.multiplyMatrices(this, m), which reads the
\* elements of both before it writes those of this, and returns this
Matrix4_multiply(heap, this, m) ==
  [heap |-> [heap EXCEPT ![this] = multiplyMatrices(heap[this], heap[m])],
   ref |-> this]

\* mutant: poseMatrix.multiply(transformMatrix), without the clone
applyTransformInPlace(heap, poseMatrix, tMatrix) ==
  Matrix4_multiply(heap, poseMatrix, tMatrix)

\* applyTransform on objects: poseMatrix.clone().multiply(transformMatrix)
applyTransformObject(heap, poseMatrix, tMatrix) ==
  Matrix4_multiply(Matrix4_clone(heap, poseMatrix).heap,
                   Matrix4_clone(heap, poseMatrix).ref, tMatrix)

\* createTransformMatrix on objects: a new Matrix4, composed from a Vector3
\* and a Quaternion built from the numbers of the pose
createTransformMatrixObject(heap, pose) == Alloc(heap, createTransformMatrix(heap[pose]))

\* matrixToPose on objects: decompose writes a new Vector3 and a new
\* Quaternion, whose numbers are returned in a new literal
matrixToPoseObject(heap, matrix) == Alloc(heap, matrixToPose(heap[matrix]))

\* normalizeQuaternion on objects: a new Quaternion built from the numbers of
\* q is normalized, its numbers are returned in a new literal
normalizeQuaternionObject(heap, q) == Alloc(heap, normalizeQuaternion(heap[q]))

\* identityPose(): a new literal at each call
identityPoseObject(heap) == Alloc(heap, identityPose)

\* identityTransform(): return identityPose()
identityTransformObject(heap) == identityPoseObject(heap)

\* the function fn run on a heap with the references args
RunObject(fn, heap, args) ==
  CASE fn = "applyTransform" -> applyTransformObject(heap, args[1], args[2])
    [] fn = "createTransformMatrix" -> createTransformMatrixObject(heap, args[1])
    [] fn = "matrixToPose" -> matrixToPoseObject(heap, args[1])
    [] fn = "normalizeQuaternion" -> normalizeQuaternionObject(heap, args[1])
    [] fn = "identityPose" -> identityPoseObject(heap)
    [] fn = "identityTransform" -> identityTransformObject(heap)

ObjectFunctions ==
  {"applyTransform", "createTransformMatrix", "matrixToPose", "normalizeQuaternion",
   "identityPose", "identityTransform"}

-----------------------------------------------------------------------------
(* Euler angles (posemath.ts, 107-128; three.js Euler and Quaternion).      *)
(* An angle in radians, in (-pi, pi], is modelled exactly by its cosine and *)
(* its sine, [c |-> cos, s |-> sin]; -pi, which Math.atan2 returns only for *)
(* a negative zero, is the same angle as pi.  Math.asin and Math.atan2      *)
(* build an angle from numbers, Math.cos and Math.sin of half an angle read *)
(* numbers from it.                                                         *)

Angle(c, s) == [c |-> c, s |-> s]

EulerAngles(x, y, z) == [x |-> x, y |-> y, z |-> z]

EulerOrders == {"XYZ", "XZY", "YXZ", "YZX", "ZXY", "ZYX"}

\* the number 0 as an angle
AngleZero == Angle(One, Zero)

\* Math.asin(v), -1 <= v <= 1: the angle in [-pi/2, pi/2] whose sine is v
MathAsin(v) == Angle(MathSqrt(Sub(One, Mul(v, v))), v)

\* Math.atan2(y, x) for finite x, y: the direction of (x, y); atan2(0, 0) = 0
MathAtan2(y, x) ==
  LET r == MathSqrt(Add(Mul(x, x), Mul(y, y)))
  IN  IF r = Zero THEN AngleZero ELSE Angle(Div(x, r), Div(y, r))

\* Math.cos(a / 2), which is >= 0 on (-pi, pi]
MathCosHalf(a) == MathSqrt(Div(Add(One, a.c), Two))

\* Math.sin(a / 2), which has the sign of sin(a)
MathSinHalf(a) ==
  IF Sign(a.s) < 0 THEN Neg(MathSqrt(Div(Sub(One, a.c), Two)))
  ELSE MathSqrt(Div(Sub(One, a.c), Two))

\* MathUtils.clamp(value, -1, 1) = Math.max(-1, Math.min(1, value))
clamp(value) ==
  IF Lt(value, Int2Num(-1)) THEN Int2Num(-1)
  ELSE IF Gt(value, One) THEN One
  ELSE value

\* Math.abs(m) < 0.9999999, decided on the square m2 = n / d of m:
\* 1 - 0.9999999^2 is just below 2e-7 = 1 / 5000000, and (d - n) / d is not
\* between the two for any d up to 2 * 10^7
belowGimbalLock(m2) ==
  /\ IsNum(m2)
  /\ m2.k = 1
  /\ m2.n < m2.d
  /\ m2.d - m2.n >= (m2.d + 4999999) \div 5000000

\* mutant: Euler.setFromRotationMatrix without its branch for gimbal lock
Euler_setFromRotationMatrixNoLock(te, order) ==
  LET m11 == El(te, 0)
      m12 == El(te, 4)
      m13 == El(te, 8)
      m21 == El(te, 1)
      m22 == El(te, 5)
      m23 == El(te, 9)
      m31 == El(te, 2)
      m32 == El(te, 6)
      m33 == El(te, 10)
  IN  CASE order = "XYZ" ->
             EulerAngles(MathAtan2(Neg(m23), m33), MathAsin(clamp(m13)), MathAtan2(Neg(m12), m11))
        [] order = "YXZ" ->
             EulerAngles(MathAsin(Neg(clamp(m23))), MathAtan2(m13, m33), MathAtan2(m21, m22))
        [] order = "ZXY" ->
             EulerAngles(MathAsin(clamp(m32)), MathAtan2(Neg(m31), m33), MathAtan2(Neg(m12), m22))
        [] order = "ZYX" ->
             EulerAngles(MathAtan2(m32, m33), MathAsin(Neg(clamp(m31))), MathAtan2(m21, m11))
        [] order = "YZX" ->
             EulerAngles(MathAtan2(Neg(m23), m22), MathAtan2(Neg(m31), m11), MathAsin(clamp(m21)))
        [] order = "XZY" ->
             EulerAngles(MathAtan2(m32, m22), MathAtan2(m13, m11), MathAsin(Neg(clamp(m12))))

\* Euler.setFromRotationMatrix(m, order), te the elements of m
Euler_setFromRotationMatrix(te, order) ==
  LET m11 == El(te, 0)
      m12 == El(te, 4)
      m13 == El(te, 8)
      m21 == El(te, 1)
      m22 == El(te, 5)
      m23 == El(te, 9)
      m31 == El(te, 2)
      m32 == El(te, 6)
      m33 == El(te, 10)
  IN  CASE order = "XYZ" ->
             IF belowGimbalLock(Mul(m13, m13))
             THEN EulerAngles(MathAtan2(Neg(m23), m33), MathAsin(clamp(m13)),
                              MathAtan2(Neg(m12), m11))
             ELSE EulerAngles(MathAtan2(m32, m22), MathAsin(clamp(m13)), AngleZero)
        [] order = "YXZ" ->
             IF belowGimbalLock(Mul(m23, m23))
             THEN EulerAngles(MathAsin(Neg(clamp(m23))), MathAtan2(m13, m33),
                              MathAtan2(m21, m22))
             ELSE EulerAngles(MathAsin(Neg(clamp(m23))), MathAtan2(Neg(m31), m11), AngleZero)
        [] order = "ZXY" ->
             IF belowGimbalLock(Mul(m32, m32))
             THEN EulerAngles(MathAsin(clamp(m32)), MathAtan2(Neg(m31), m33),
                              MathAtan2(Neg(m12), m22))
             ELSE EulerAngles(MathAsin(clamp(m32)), AngleZero, MathAtan2(m21, m11))
        [] order = "ZYX" ->
             IF belowGimbalLock(Mul(m31, m31))
             THEN EulerAngles(MathAtan2(m32, m33), MathAsin(Neg(clamp(m31))),
                              MathAtan2(m21, m11))
             ELSE EulerAngles(AngleZero, MathAsin(Neg(clamp(m31))), MathAtan2(Neg(m12), m22))
        [] order = "YZX" ->
             IF belowGimbalLock(Mul(m21, m21))
             THEN EulerAngles(MathAtan2(Neg(m23), m22), MathAtan2(Neg(m31), m11),
                              MathAsin(clamp(m21)))
             ELSE EulerAngles(AngleZero, MathAtan2(m13, m33), MathAsin(clamp(m21)))
        [] order = "XZY" ->
             IF belowGimbalLock(Mul(m12, m12))
             THEN EulerAngles(MathAtan2(m32, m22), MathAtan2(m13, m11),
                              MathAsin(Neg(clamp(m12))))
             ELSE EulerAngles(MathAtan2(Neg(m23), m33), AngleZero, MathAsin(Neg(clamp(m12))))

\* Euler.setFromQuaternion(q, order): the matrix of makeRotationFromQuaternion,
\* which is compose(zero, q, one), then setFromRotationMatrix
Euler_setFromQuaternion(q, order) ==
  Euler_setFromRotationMatrix(
    compose(Vec(Zero, Zero, Zero), q, Vec(One, One, One)), order)

\* the products of Quaternion.setFromEuler: c and s are the cosines and the
\* sines of the half angles, sa, sb, sc, sd the signs of the second terms of
\* x, y, z, w
setFromEulerTerms(c, s, sa, sb, sc, sd) ==
  LET t(a, b, d) == Mul(Mul(a, b), d)
      pm(sign, a, b) == IF sign > 0 THEN Add(a, b) ELSE Sub(a, b)
  IN  Quat(pm(sa, t(s[1], c[2], c[3]), t(c[1], s[2], s[3])),
           pm(sb, t(c[1], s[2], c[3]), t(s[1], c[2], s[3])),
           pm(sc, t(c[1], c[2], s[3]), t(s[1], s[2], c[3])),
           pm(sd, t(c[1], c[2], c[3]), t(s[1], s[2], s[3])))

\* Quaternion.setFromEuler(euler), euler = new Euler(x, y, z, order)
Quaternion_setFromEuler(x, y, z, order) ==
  LET c == <<MathCosHalf(x), MathCosHalf(y), MathCosHalf(z)>>
      s == <<MathSinHalf(x), MathSinHalf(y), MathSinHalf(z)>>
  IN  CASE order = "XYZ" -> setFromEulerTerms(c, s, 1, -1, 1, -1)
        [] order = "YXZ" -> setFromEulerTerms(c, s, 1, -1, -1, 1)
        [] order = "ZXY" -> setFromEulerTerms(c, s, -1, 1, 1, -1)
        [] order = "ZYX" -> setFromEulerTerms(c, s, -1, 1, -1, 1)
        [] order = "YZX" -> setFromEulerTerms(c, s, 1, 1, -1, -1)
        [] order = "XZY" -> setFromEulerTerms(c, s, -1, -1, 1, 1)

\* mutant: the order is not passed on to new Euler (its default is XYZ)
eulerToQuaternionDefaultOrder(x, y, z, order) ==
  Quaternion_setFromEuler(x, y, z, "XYZ")

\* eulerToQuaternion(x, y, z, order)
eulerToQuaternion(x, y, z, order) == Quaternion_setFromEuler(x, y, z, order)

\* quaternionToEuler(q, order)
quaternionToEuler(q, order) == Euler_setFromQuaternion(q, order)

-----------------------------------------------------------------------------
(* formatNumber (posemath.ts, 133-136) and the text it builds.  A number    *)
(* that is formatted is a decimal, (-1)^neg * m * 10^e, or NaN or an        *)
(* infinity; its text is a sequence of characters.  The decimals that are   *)
(* formatted are doubles whose rounding at the precisions used is the       *)
(* rounding of the decimal (no tie that is not exact in binary), and are    *)
(* below 1e21, where toFixed stops writing positional digits.               *)

Finite(neg, m, e) == [kind |-> "finite", neg |-> neg, m |-> m, e |-> e]
NumberNaN == [kind |-> "NaN", neg |-> FALSE, m |-> 0, e |-> 0]
Infinity(neg) == [kind |-> "Infinity", neg |-> neg, m |-> 0, e |-> 0]

\* the two ways a call ends
Return(value) == [kind |-> "return", value |-> value]
Throw(error) == [kind |-> "throw", value |-> <<error>>]

DigitChars == <<"0", "1", "2", "3", "4", "5", "6", "7", "8", "9">>

RECURSIVE NatDigits(_)
NatDigits(m) ==
  IF m < 10 THEN <<DigitChars[m + 1]>>
  ELSE Append(NatDigits(m \div 10), DigitChars[(m % 10) + 1])

RECURSIVE Pow10(_)
Pow10(k) == IF k = 0 THEN 1 ELSE 10 * Pow10(k - 1)

Zeros(k) == [i \in 1..k |-> "0"]

\* Math.abs(n) < 1e-10; false of NaN and of the infinities.  m < 10^9, so
\* m * 10^e < 10^-10 whenever e < -19.
AbsBelow1em10(n) ==
  /\ n.kind = "finite"
  /\ \/ n.m = 0
     \/ /\ n.e < -10
        /\ (n.e < -19 \/ n.m < Pow10(-10 - n.e))

\* ToIntegerOrInfinity of the fractionDigits argument: NaN is 0, a finite
\* number is truncated toward zero
ToIntegerOrInfinity(x) ==
  IF x.kind = "NaN" THEN [finite |-> TRUE, int |-> 0]
  ELSE IF x.kind = "Infinity" THEN [finite |-> FALSE, int |-> 0]
  ELSE LET a == IF x.e >= 0 THEN x.m * Pow10(x.e)
                ELSE IF x.e < -9 THEN 0
                ELSE x.m \div Pow10(-x.e)
       IN  [finite |-> TRUE, int |-> IF x.neg THEN -a ELSE a]

\* the digits of the integer nearest to m * 10^s, the larger one at a tie
\* (Number.prototype.toFixed, "let n be an integer for which n / 10^f - x is
\* as close to zero as possible; if there are two such n, pick the larger")
roundScaled(m, s) ==
  IF s >= 0 THEN (IF m = 0 THEN <<"0">> ELSE NatDigits(m) \o Zeros(s))
  ELSE IF s < -9 THEN <<"0">>
  ELSE NatDigits((m \div Pow10(-s))
                 + (IF 2 * (m % Pow10(-s)) >= Pow10(-s) THEN 1 ELSE 0))

\* the text of a finite x with f digits after the point: the digits of the
\* rounded integer, padded to f + 1 digits, the point before the last f
fixedText(x, f) ==
  LET n == roundScaled(x.m, x.e + f)
      padded == IF Len(n) <= f THEN Zeros(f + 1 - Len(n)) \o n ELSE n
      k == Len(padded)
      body == IF f = 0 THEN padded
              ELSE SubSeq(padded, 1, k - f) \o <<".">> \o SubSeq(padded, k - f + 1, k)
  IN  (IF x.neg /\ x.m # 0 THEN <<"-">> ELSE <<>>) \o body

\* Number.prototype.toFixed(fractionDigits): a RangeError unless the digits
\* are finite and in 0..100 (checked first), then the text of x
toFixed(x, fractionDigits) ==
  IF \/ ~ToIntegerOrInfinity(fractionDigits).finite
     \/ ToIntegerOrInfinity(fractionDigits).int < 0
     \/ ToIntegerOrInfinity(fractionDigits).int > 100
  THEN Throw("RangeError")
  ELSE IF x.kind = "NaN" THEN Return(<<"N", "a", "N">>)
  ELSE IF x.kind = "Infinity"
  THEN Return((IF x.neg THEN <<"-">> ELSE <<>>)
              \o <<"I", "n", "f", "i", "n", "i", "t", "y">>)
  ELSE Return(fixedText(x, ToIntegerOrInfinity(fractionDigits).int))

RECURSIVE TrailingZeros(_)
TrailingZeros(text) ==
  IF text = <<>> \/ text[Len(text)] # "0" THEN 0
  ELSE 1 + TrailingZeros(SubSeq(text, 1, Len(text) - 1))

\* text.replace(/\.?0+$/, ''): the leftmost match is the whole run of zeros
\* that ends the text, with the point before it when there is one; no zero
\* at the end, no match
replaceTrailingZeros(text) ==
  LET cut == Len(text) - TrailingZeros(text)
  IN  IF cut = Len(text) THEN text
      ELSE IF cut >= 1 /\ text[cut] = "." THEN SubSeq(text, 1, cut - 1)
      ELSE SubSeq(text, 1, cut)

\* formatNumber(n, precision)
formatNumber(n, precision) ==
  IF AbsBelow1em10(n) THEN Return(<<"0">>)
  ELSE IF toFixed(n, precision).kind = "throw" THEN toFixed(n, precision)
  ELSE Return(replaceTrailingZeros(toFixed(n, precision).value))

-----------------------------------------------------------------------------
(* The values a user types.  Positions: integer coordinates >= 0 with      *)
(* x + y + z <= MaxCoord (the rotations bring the negative ones).          *)
(* Quaternions: the rotations below (unit), and quaternions that are not   *)
(* normalized.                                                             *)

MaxCoord == 1

Coords == 0..MaxCoord

Positions ==
  {Vec(Int2Num(t[1]), Int2Num(t[2]), Int2Num(t[3])) :
     t \in {u \in Coords \X Coords \X Coords : u[1] + u[2] + u[3] <= MaxCoord}}

\* sqrt(2) / 2
S2 == Mk(1, 2, 2)

\* 90 degrees about Z and about X, 2 atan(3/4) about X, and -1 (the identity rotation)
RotZ90 == Quat(Zero, Zero, S2, S2)
RotX90 == Quat(S2, Zero, Zero, S2)
RotX74 == Quat(Rat(3, 5), Zero, Zero, Rat(4, 5))
MinusIdentity == Quat(Zero, Zero, Zero, Int2Num(-1))

UnitQuats ==
  {Quat(Zero, Zero, Zero, One), RotZ90, RotX90, RotX74, MinusIdentity}

NonUnitQuats ==
  {Quat(Zero, Zero, Zero, Two), Quat(One, One, One, One),
   Quat(Zero, Zero, Zero, Zero), Quat(Zero, Half, Half, Zero)}

Quats == UnitQuats \cup NonUnitQuats

\* The Euler angles: 0, 90, -90 and 180 degrees, and 2 atan(3/4)
EulerInputAngles ==
  {AngleZero, Angle(Zero, One), Angle(Zero, Int2Num(-1)), Angle(Int2Num(-1), Zero),
   Angle(Rat(7, 25), Rat(24, 25))}

\* The unit quaternions that are converted to Euler angles: the rotations
\* above, each alone and followed by one that is a multiple of 90 degrees
\* (Hamilton products; the square roots of their angles are within MaxRoot)
UnitRotations ==
  {Quat(Add(Add(Mul(a.w, b.x), Mul(a.x, b.w)), Sub(Mul(a.y, b.z), Mul(a.z, b.y))),
        Add(Sub(Mul(a.w, b.y), Mul(a.x, b.z)), Add(Mul(a.y, b.w), Mul(a.z, b.x))),
        Add(Add(Mul(a.w, b.z), Mul(a.x, b.y)), Sub(Mul(a.z, b.w), Mul(a.y, b.x))),
        Sub(Sub(Mul(a.w, b.w), Mul(a.x, b.x)), Add(Mul(a.y, b.y), Mul(a.z, b.z)))) :
     a \in UnitQuats, b \in UnitQuats \ {RotX74}}

\* The objects on which the functions are run: poses, their matrices
PoseObjects ==
  {Pose(p, q) : p \in Positions,
                q \in {Quat(Zero, Zero, Zero, One), RotZ90, Quat(Zero, Zero, Zero, Two)}}

MatrixObjects == {createTransformMatrix(pose) : pose \in PoseObjects}

\* The numbers that are formatted: zero and minus zero, numbers below, at and
\* above the threshold 1e-10, integers that end in zeros, fractions with and
\* without trailing zeros at the precisions below, NaN and the infinities.
Numbers ==
  {Finite(FALSE, 0, 0), Finite(TRUE, 0, 0),
   Finite(FALSE, 1, -11), Finite(TRUE, 1, -11),
   Finite(FALSE, 1, -10), Finite(TRUE, 1, -10),
   Finite(FALSE, 1, -7), Finite(TRUE, 1, -7),
   Finite(FALSE, 4, -1), Finite(TRUE, 4, -1),
   Finite(FALSE, 15, -1), Finite(TRUE, 15, -1),
   Finite(FALSE, 125, -3), Finite(FALSE, 1, 0), Finite(TRUE, 1, 0),
   Finite(FALSE, 1, 1), Finite(FALSE, 1, 2), Finite(TRUE, 1, 2),
   Finite(FALSE, 1225, -2), Finite(FALSE, 707107, -6),
   NumberNaN, Infinity(FALSE), Infinity(TRUE)}

\* The precisions: 0, 1, 2, the ones the components pass (4, 6), the first
\* integers outside the range 0..100 of toFixed, a fraction (1.5), NaN and
\* Infinity.
Precisions ==
  {Finite(FALSE, 0, 0), Finite(FALSE, 1, 0), Finite(FALSE, 2, 0),
   Finite(FALSE, 4, 0), Finite(FALSE, 6, 0),
   Finite(FALSE, 101, 0), Finite(TRUE, 1, 0), Finite(FALSE, 15, -1),
   NumberNaN, Infinity(FALSE)}

-----------------------------------------------------------------------------
(* src/src/App.tsx: the memoized values.  useMemo and useCallback keep the  *)
(* value of the last render whose dependencies differed from those of the   *)
(* render before.  A cell of memo holds the poses its value was computed    *)
(* from: the value is a function of them, and a memoized object is the same *)
(* object as before exactly when it was not recomputed.                     *)

\* mutant: resultMatrix depends on [inputMatrix] alone
RenderResultOfInput(m, oldPose, oldTransform, pose, tr) ==
  LET im == IF pose # oldPose THEN pose ELSE m.inputMatrix
      tm == IF tr # oldTransform THEN tr ELSE m.transformMatrix
      rm == IF im # m.inputMatrix THEN <<im, tm>> ELSE m.resultMatrix
      rp == IF rm # m.resultMatrix THEN rm ELSE m.resultPose
  IN  [inputMatrix |-> im,
       transformMatrix |-> tm,
       resultMatrix |-> rm,
       resultPose |-> rp,
       inputMatrixArray |-> IF im # m.inputMatrix THEN im ELSE m.inputMatrixArray,
       transformMatrixArray |-> IF tm # m.transformMatrix THEN tm ELSE m.transformMatrixArray,
       resultMatrixArray |-> IF rm # m.resultMatrix THEN rm ELSE m.resultMatrixArray,
       handleUseAsInput |-> IF rp # m.resultPose THEN rp ELSE m.handleUseAsInput]

\* mutant: handleUseAsInput has no dependency ([] for [resultPose])
RenderCallbackOnce(m, oldPose, oldTransform, pose, tr) ==
  LET im == IF pose # oldPose THEN pose ELSE m.inputMatrix
      tm == IF tr # oldTransform THEN tr ELSE m.transformMatrix
      rm == IF im # m.inputMatrix \/ tm # m.transformMatrix THEN <<im, tm>>
            ELSE m.resultMatrix
      rp == IF rm # m.resultMatrix THEN rm ELSE m.resultPose
  IN  [inputMatrix |-> im,
       transformMatrix |-> tm,
       resultMatrix |-> rm,
       resultPose |-> rp,
       inputMatrixArray |-> IF im # m.inputMatrix THEN im ELSE m.inputMatrixArray,
       transformMatrixArray |-> IF tm # m.transformMatrix THEN tm ELSE m.transformMatrixArray,
       resultMatrixArray |-> IF rm # m.resultMatrix THEN rm ELSE m.resultMatrixArray,
       handleUseAsInput |-> m.handleUseAsInput]

\* The render that follows a state update (App.tsx, 23-45): m is the memo of
\* the render before, oldPose and oldTransform its state, pose and tr the
\* state now.  Each cell is recomputed when one of its dependencies changed.
Render(m, oldPose, oldTransform, pose, tr) ==
  LET im == IF pose # oldPose THEN pose ELSE m.inputMatrix
      tm == IF tr # oldTransform THEN tr ELSE m.transformMatrix
      rm == IF im # m.inputMatrix \/ tm # m.transformMatrix THEN <<im, tm>>
            ELSE m.resultMatrix
      rp == IF rm # m.resultMatrix THEN rm ELSE m.resultPose
  IN  [inputMatrix |-> im,
       transformMatrix |-> tm,
       resultMatrix |-> rm,
       resultPose |-> rp,
       inputMatrixArray |-> IF im # m.inputMatrix THEN im ELSE m.inputMatrixArray,
       transformMatrixArray |-> IF tm # m.transformMatrix THEN tm ELSE m.transformMatrixArray,
       resultMatrixArray |-> IF rm # m.resultMatrix THEN rm ELSE m.resultMatrixArray,
       handleUseAsInput |-> IF rp # m.resultPose THEN rp ELSE m.handleUseAsInput]

\* the first render computes every cell
FirstRender(pose, tr) ==
  [inputMatrix |-> pose,
   transformMatrix |-> tr,
   resultMatrix |-> <<pose, tr>>,
   resultPose |-> <<pose, tr>>,
   inputMatrixArray |-> pose,
   transformMatrixArray |-> tr,
   resultMatrixArray |-> <<pose, tr>>,
   handleUseAsInput |-> <<pose, tr>>]

\* the values of the cells
inputMatrix == createTransformMatrix(memo.inputMatrix)
transformMatrix == createTransformMatrix(memo.transformMatrix)
resultMatrix ==
  applyTransform(createTransformMatrix(memo.resultMatrix[1]),
                 createTransformMatrix(memo.resultMatrix[2]))
resultPose ==
  matrixToPose(applyTransform(createTransformMatrix(memo.resultPose[1]),
                              createTransformMatrix(memo.resultPose[2])))
inputMatrixArray == matrixToArray(createTransformMatrix(memo.inputMatrixArray))
transformMatrixArray == matrixToArray(createTransformMatrix(memo.transformMatrixArray))
resultMatrixArray ==
  matrixToArray(applyTransform(createTransformMatrix(memo.resultMatrixArray[1]),
                               createTransformMatrix(memo.resultMatrixArray[2])))

\* the resultPose that the handleUseAsInput of the last render closes over
capturedResultPose ==
  matrixToPose(applyTransform(createTransformMatrix(memo.handleUseAsInput[1]),
                              createTransformMatrix(memo.handleUseAsInput[2])))

\* PoseInput, lines 29-30, for the quaternions shown by the two cards
isNormalized ==
  [card \in Cards |->
     isQuaternionNormalized(IF card = "pose" THEN inputPose.quaternion
                            ELSE transform.quaternion, DefaultTolerance)]

magnitude ==
  [card \in Cards |->
     quaternionMagnitude(IF card = "pose" THEN inputPose.quaternion
                         ELSE transform.quaternion)]

\* no call of a PoseMath function is followed
NoCall == [fn |-> "none", args |-> <<>>, result |-> [kind |-> "none", value |-> <<>>]]

\* the calls that fed a call, itself included: origin is the call whose
\* result is the argument, NoCall when the arguments are fresh
RECURSIVE ChainLength(_)
ChainLength(c) == IF c.fn = "none" THEN 0 ELSE 1 + ChainLength(c.origin)

\* the longest chain of calls that is followed
MaxChain == 3

\* a call that has its arguments and has not run
Pending == [kind |-> "pending", value |-> <<>>]

-----------------------------------------------------------------------------
(* src/unnamed/part_000: PoseVisualizer3D.  Lengths are whole millimetres, *)
(* or NaN.  The positions that are followed lie on the line through the    *)
(* origin and the first camera position (4, -4, 3): the orbit target, the  *)
(* camera and both animation targets then stay on that line, and each is   *)
(* kept as its coordinate along it.  The user does not drag or zoom.       *)

mm(i) == [nan |-> FALSE, mm |-> i]
mmNaN == [nan |-> TRUE, mm |-> 0]

Vector3(x, y, z) == [x |-> x, y |-> y, z |-> z]
NaNVector == Vector3(mmNaN, mmNaN, mmNaN)
AnyNaN(v) == v.x.nan \/ v.y.nan \/ v.z.nan

\* the point k * (8, -8, 6) m of the line
OnLine(k) == Vector3(mm(8000 * k), mm(-8000 * k), mm(6000 * k))

\* floor(a * b / c), for c > 0, without an intermediate a * b
MulDiv(a, b, c) == (a \div c) * b + ((a % c) * b) \div c

\* a / c rounded to the nearest integer, for c > 0
RoundDiv(a, c) == (2 * a + c) \div (2 * c)

\* a / c rounded up, for c > 0
CeilDiv(a, c) == (a + c - 1) \div c

RECURSIVE ISqrtBetween(_, _, _)
ISqrtBetween(n, lo, hi) ==
  IF lo = hi THEN lo
  ELSE LET mid == (lo + hi + 1) \div 2
       IN  IF mid * mid <= n THEN ISqrtBetween(n, mid, hi)
           ELSE ISqrtBetween(n, lo, mid - 1)

\* Math.sqrt of an integer, rounded down
ISqrt(n) == ISqrtBetween(n, 0, 46340)

\* Math.max: NaN when one of the numbers is NaN
MathMax(S) ==
  IF \E a \in S : a.nan THEN mmNaN
  ELSE mm(CHOOSE m \in {a.mm : a \in S} : \A a \in S : a.mm <= m)

\* Math.abs
mmAbs(a) == IF a.nan THEN mmNaN ELSE mm(Abs(a.mm))

\* Vector3.lerp(target, 0.08) of a point of the line: v += (target - v) * 0.08
lerp(v, target) ==
  IF v.nan \/ target.nan THEN mmNaN
  ELSE mm(v.mm + RoundDiv((target.mm - v.mm) * 8, 100))

\* Vector3.distanceTo of two points of the line
distanceTo(a, b) == IF a.nan \/ b.nan THEN mmNaN ELSE mm(Abs(a.mm - b.mm))

\* the coordinate along the line of the middle of two points of it:
\* ((u + v) / 2) . (4, -4, 3) / |(4, -4, 3)|
MiddleAlong(u, v) ==
  MulDiv(4 * (u.x.mm + v.x.mm) - 4 * (u.y.mm + v.y.mm) + 3 * (u.z.mm + v.z.mm),
         500, 6403)

\* the size in cm of the box along one axis: the two coordinates, padded by
\* 0.5 m on both sides
BoxSize(a, b) == (Abs(a.mm - b.mm) + 1000) \div 10

\* calculateCameraFit, lines 106-153, with fov = 50: sin(fov / 2) = 0.4226.
\* The sphere's centre is the middle of the box and its radius half the
\* diagonal; currentDir is the unit vector from the orbit target to the
\* camera, +1 or -1 along the line.
calculateCameraFit(st, inputPos, resultPos) ==
  LET boxNaN == AnyNaN(inputPos) \/ AnyNaN(resultPos)
      sx == BoxSize(inputPos.x, resultPos.x)
      sy == BoxSize(inputPos.y, resultPos.y)
      sz == BoxSize(inputPos.z, resultPos.z)
      radius == ISqrt(sx * sx + sy * sy + sz * sz) * 5
      distance == MulDiv(radius, 10000, 4226)
      scaled == (distance * 11) \div 10
      finalDistance == IF scaled > 800 THEN scaled ELSE 800
      center == IF boxNaN THEN mmNaN ELSE mm(MiddleAlong(inputPos, resultPos))
      dirNaN == st.cameraPosition.nan \/ st.controlsTarget.nan
      currentDir == IF st.cameraPosition.mm > st.controlsTarget.mm THEN 1
                    ELSE IF st.cameraPosition.mm < st.controlsTarget.mm THEN -1
                    ELSE 0
      newCameraPos == IF boxNaN \/ dirNaN THEN mmNaN
                      ELSE mm(center.mm + currentDir * finalDistance)
  IN  [st EXCEPT !.targetCameraPos = <<newCameraPos>>,
                 !.targetControlsTarget = <<center>>]

\* updateGrid, line 239: roundedExtent > gridExtentRef.current * 1.2
extentChanged(roundedExtent, gridExtent) ==
  /\ ~roundedExtent.nan
  /\ ~gridExtent.nan
  /\ 10 * roundedExtent.mm > 12 * gridExtent.mm

\* updateGrid, lines 206-256.  |controls.target.x| = |controls.target.y| is
\* 4 / |(4, -4, 3)| of the target's coordinate along the line.
updateGrid(st) ==
  LET distance == distanceTo(st.cameraPosition, st.controlsTarget)
      targetSpacing ==
        IF distance.nan THEN 10000
        ELSE IF distance.mm < 2000 THEN 100
        ELSE IF distance.mm < 10000 THEN 500
        ELSE IF distance.mm < 50000 THEN 1000
        ELSE IF distance.mm < 200000 THEN 5000
        ELSE 10000
      targetXY == IF st.controlsTarget.nan THEN mmNaN
                  ELSE mm(MulDiv(Abs(st.controlsTarget.mm), 4000, 6403))
      cameraExtent == MathMax({targetXY, distance})
      minExtent == st.requiredExtent
      maxExtent == MathMax({minExtent, cameraExtent})
      \* targetExtent = maxExtent * 1.5, rounded up to a multiple of
      \* targetSpacing * 10
      roundedExtent ==
        IF maxExtent.nan THEN mmNaN
        ELSE mm(CeilDiv(3 * maxExtent.mm, 20 * targetSpacing) * targetSpacing * 10)
      spacingChanged == targetSpacing # st.gridSpacing
      newExtent == MathMax({st.gridExtent, roundedExtent})
  IN  IF spacingChanged \/ extentChanged(roundedExtent, st.gridExtent)
      THEN [st EXCEPT !.gridSpacing = targetSpacing,
                      !.gridExtent = newExtent,
                      !.gridSize = IF newExtent.nan THEN mmNaN
                                   ELSE mm(newExtent.mm * 2)]
      ELSE st

\* controls.update() of the OrbitControls of lines 183-188, with no input of
\* the user: the camera is put back between minDistance = 0.2 and
\* maxDistance = 200 of the orbit target, in its direction from the target
controlsUpdate(st) ==
  IF st.cameraPosition.nan \/ st.controlsTarget.nan
  THEN [st EXCEPT !.cameraPosition = mmNaN]
  ELSE LET offset == st.cameraPosition.mm - st.controlsTarget.mm
           radius == IF Abs(offset) < 200 THEN 200
                     ELSE IF Abs(offset) > 200000 THEN 200000
                     ELSE Abs(offset)
       IN  [st EXCEPT !.cameraPosition =
              mm(st.controlsTarget.mm + (IF offset < 0 THEN -radius ELSE radius))]

\* animate, lines 298-317: the lerp towards the targets and the test that
\* ends the animation
moveTowardsTargets(st) ==
  IF st.targetCameraPos # <<>> /\ st.targetControlsTarget # <<>>
  THEN LET target == lerp(st.controlsTarget, st.targetControlsTarget[1])
           position == lerp(st.cameraPosition, st.targetCameraPos[1])
           targetDist == distanceTo(position, st.targetCameraPos[1])
           controlsDist == distanceTo(target, st.targetControlsTarget[1])
       IN  IF /\ ~targetDist.nan /\ targetDist.mm < 10
              /\ ~controlsDist.nan /\ controlsDist.mm < 10
           THEN [st EXCEPT !.cameraPosition = st.targetCameraPos[1],
                           !.controlsTarget = st.targetControlsTarget[1],
                           !.targetCameraPos = <<>>,
                           !.targetControlsTarget = <<>>]
           ELSE [st EXCEPT !.cameraPosition = position,
                           !.controlsTarget = target]
  ELSE st

\* animate, lines 295-324, one frame: the lerp, then updateGrid, then
\* controls.update(); renderer.render changes nothing that is followed
animate(st) ==
  CHOOSE after \in
    {controlsUpdate(grid) :
       grid \in {updateGrid(moved) : moved \in {moveTowardsTargets(st)}}} : TRUE

\* the effect of lines 355-395, run when a prop changed: the required
\* extent, then calculateCameraFit; the frames and the line that it moves
\* are not followed
updatePoses(st, inputPos, resultPos) ==
  calculateCameraFit(
    [st EXCEPT !.inputPos = inputPos,
               !.resultPos = resultPos,
               !.requiredExtent =
                  MathMax({mmAbs(inputPos.x), mmAbs(inputPos.y),
                           mmAbs(resultPos.x), mmAbs(resultPos.y), mm(10000)})],
    inputPos, resultPos)

\* the scene as the effect of lines 156-352 builds it, before the first
\* frame: the camera at (4, -4, 3), |(4, -4, 3)| = 6.403 m from the orbit
\* target at the origin, GridHelper(100, 100), and the refs of lines 96-103
builtScene ==
  [cameraPosition |-> mm(6403),
   controlsTarget |-> mm(0),
   targetCameraPos |-> <<>>,
   targetControlsTarget |-> <<>>,
   gridSpacing |-> 1000,
   gridExtent |-> mm(100000),
   gridSize |-> mm(100000),
   requiredExtent |-> mm(10000),
   inputPos |-> OnLine(0),
   resultPos |-> OnLine(0),
   poseChanges |-> 0]

\* PoseVisualizer3D after it is mounted: the first effect builds the scene
\* and runs the first frame (line 325), the second effect takes the
\* positions of the identity pose
SceneInit == scene = updatePoses(animate(builtScene), OnLine(0), OnLine(0))

\* PoseInput, lines 24-38, of each card after it is mounted: the initial
\* values of its useState cells, and the angles that the effect of the first
\* render stores (the mode is 'quaternion')
PoseInputInit ==
  /\ rotationMode = [card \in Cards |-> "quaternion"]
  /\ eulerOrder = [card \in Cards |-> "XYZ"]
  /\ useDegrees = [card \in Cards |-> TRUE]
  /\ eulerAngles = [card \in Cards |-> quaternionToEuler(identityPose.quaternion, "XYZ")]

\* the Copy buttons: the three indicators, of the matrix (MatrixDisplay) and
\* of the position and the quaternion (ResultCard)
Indicators == {"copied", "copiedPos", "copiedQuat"}

\* MatrixDisplay, lines 292-293, and ResultCard, lines 13-14, after they are
\* mounted: no indicator shows, the panel is open (defaultCollapsed = false),
\* nothing was copied
CopyInit ==
  /\ copied = [ind \in Indicators |-> FALSE]
  /\ collapsed = FALSE
  /\ writes = [ind \in Indicators |-> 0]
  /\ timers = [ind \in Indicators |-> <<>>]
  /\ clock = 0
  /\ consoleErrors = 0

\* the components below the App after they are mounted
ComponentsInit == PoseInputInit /\ CopyInit /\ SceneInit

Init ==
  /\ zeroDetGuard \in BOOLEAN
  /\ call = NoCall
  /\ inputPose = identityPose
  /\ transform = identityTransform
  /\ memo = FirstRender(identityPose, identityTransform)
  /\ ComponentsInit

\* PoseCard: onPositionChange = (position) => onPoseChange({...pose, position})
PoseCardPositionChange(position) ==
  /\ inputPose' = [inputPose EXCEPT !.position = position]
  /\ UNCHANGED <<transform, zeroDetGuard, call, rotationMode, componentVars>>
  /\ memo' = Render(memo, inputPose, transform, inputPose', transform')

\* PoseCard: onQuaternionChange = (quaternion) => onPoseChange({...pose, quaternion}),
\* from the quaternion fields, which are rendered in quaternion mode
PoseCardQuaternionChange(quaternion) ==
  /\ rotationMode["pose"] = "quaternion"
  /\ inputPose' = [inputPose EXCEPT !.quaternion = quaternion]
  /\ UNCHANGED <<transform, zeroDetGuard, call, rotationMode, componentVars>>
  /\ memo' = Render(memo, inputPose, transform, inputPose', transform')

\* TransformCard: onPositionChange
TransformCardPositionChange(position) ==
  /\ transform' = [transform EXCEPT !.position = position]
  /\ UNCHANGED <<inputPose, zeroDetGuard, call, rotationMode, componentVars>>
  /\ memo' = Render(memo, inputPose, transform, inputPose', transform')

\* TransformCard: onQuaternionChange, from the quaternion fields
TransformCardQuaternionChange(quaternion) ==
  /\ rotationMode["transform"] = "quaternion"
  /\ transform' = [transform EXCEPT !.quaternion = quaternion]
  /\ UNCHANGED <<inputPose, zeroDetGuard, call, rotationMode, componentVars>>
  /\ memo' = Render(memo, inputPose, transform, inputPose', transform')

\* PoseInput: onClick={() => setRotationMode(mode)} of the two mode buttons
setRotationMode(card, mode) ==
  /\ rotationMode' = [rotationMode EXCEPT ![card] = mode]
  /\ UNCHANGED <<inputPose, transform, zeroDetGuard, call, memo, componentVars>>

\* mutant: the warning is shown whatever the magnitude
WarningShownAtZero(card) ==
  /\ rotationMode[card] = "quaternion"
  /\ ~isNormalized[card]

\* PoseInput, lines 163 and 211: the warning block with |q| is rendered
WarningShown(card) ==
  /\ rotationMode[card] = "quaternion"
  /\ ~isNormalized[card]
  /\ Gt(magnitude[card], Zero)

\* PoseInput, line 214: the Normalize button is rendered in the warning
\* block unless the input is disabled
NormalizeButtonShown(card, disabled) == WarningShown(card) /\ ~disabled

\* the Normalize button of a card is rendered: neither PoseCard nor
\* TransformCard passes disabled, which defaults to false
NormalizeShown(card) == NormalizeButtonShown(card, FALSE)

\* mutant: the handler without its guard on the magnitude
handleNormalizeUnguarded(card) ==
  normalizeQuaternion(IF card = "pose" THEN inputPose.quaternion ELSE transform.quaternion)

\* PoseInput.handleNormalize: the quaternion the card holds after the handler
\* ran; onQuaternionChange(normalizeQuaternion(quaternion)) is called only
\* when magnitude > 0
handleNormalize(card) ==
  IF Gt(magnitude[card], Zero)
  THEN normalizeQuaternion(IF card = "pose" THEN inputPose.quaternion
                           ELSE transform.quaternion)
  ELSE IF card = "pose" THEN inputPose.quaternion ELSE transform.quaternion

\* a click on Normalize in the PoseCard
PoseCardNormalize ==
  /\ NormalizeShown("pose")
  /\ inputPose' = [inputPose EXCEPT !.quaternion = handleNormalize("pose")]
  /\ UNCHANGED <<transform, zeroDetGuard, call, rotationMode, componentVars>>
  /\ memo' = Render(memo, inputPose, transform, inputPose', transform')

\* a click on Normalize in the TransformCard
TransformCardNormalize ==
  /\ NormalizeShown("transform")
  /\ transform' = [transform EXCEPT !.quaternion = handleNormalize("transform")]
  /\ UNCHANGED <<inputPose, zeroDetGuard, call, rotationMode, componentVars>>
  /\ memo' = Render(memo, inputPose, transform, inputPose', transform')

\* mutant: 'Reset to Origin' resets the transform too
handleResetPoseAll ==
  /\ inputPose' = identityPose
  /\ transform' = identityTransform
  /\ UNCHANGED <<zeroDetGuard, call, rotationMode, componentVars>>
  /\ memo' = Render(memo, inputPose, transform, inputPose', transform')

\* App.handleResetPose, the onReset of the PoseCard ('Reset to Origin')
handleResetPose ==
  /\ inputPose' = identityPose
  /\ UNCHANGED <<transform, zeroDetGuard, call, rotationMode, componentVars>>
  /\ memo' = Render(memo, inputPose, transform, inputPose', transform')

\* App.handleResetTransform, the onReset of the TransformCard ('Reset to Identity')
handleResetTransform ==
  /\ transform' = identityTransform
  /\ UNCHANGED <<inputPose, zeroDetGuard, call, rotationMode, componentVars>>
  /\ memo' = Render(memo, inputPose, transform, inputPose', transform')

\* the poses that 'Use as New Input' is followed to: the position has
\* integer coordinates with |x| + |y| + |z| <= MaxCoord (the rotations bring
\* the negative ones), the quaternion is one a user types.  A result with a
\* component that is NaN (from a quaternion of magnitude 0) is not followed.
Followed(pose) ==
  /\ \A c \in {pose.position.x, pose.position.y, pose.position.z} :
       IsNum(c) /\ c.d = 1 /\ c.k = 1
  /\ Abs(pose.position.x.n) + Abs(pose.position.y.n) + Abs(pose.position.z.n) <= MaxCoord
  /\ pose.quaternion \in Quats

\* App.handleUseAsInput: setInputPose(resultPose); setTransform(identityTransform()),
\* the two updates batched into one render
handleUseAsInput ==
  /\ transform' = identityTransform
  /\ UNCHANGED <<zeroDetGuard, call, rotationMode, componentVars>>
  /\ \E captured \in {capturedResultPose} :
       /\ Followed(captured)
       /\ inputPose' = captured
  /\ memo' = Render(memo, inputPose, transform, inputPose', transform')

Next ==
  \/ \E position \in Positions : PoseCardPositionChange(position)
  \/ \E quaternion \in Quats : PoseCardQuaternionChange(quaternion)
  \/ \E position \in Positions : TransformCardPositionChange(position)
  \/ \E quaternion \in Quats : TransformCardQuaternionChange(quaternion)
  \/ \E card \in Cards, mode \in {"quaternion", "euler"} : setRotationMode(card, mode)
  \/ PoseCardNormalize
  \/ TransformCardNormalize
  \/ handleResetPose
  \/ handleResetTransform
  \/ handleUseAsInput

Spec == Init /\ [][Next]_vars

-----------------------------------------------------------------------------
(* The functions of posemath.ts called on their own: the arguments are      *)
(* drawn from the sets above, one step runs the call and keeps its outcome. *)

InitCalls ==
  /\ zeroDetGuard \in BOOLEAN
  /\ inputPose = identityPose
  /\ transform = identityTransform
  /\ memo = FirstRender(identityPose, identityTransform)
  /\ ComponentsInit
  /\ \/ call \in [fn : {"formatNumber"}, args : Numbers \X Precisions,
                  result : {Pending}, origin : {NoCall}]
     \/ call \in [fn : {"eulerToQuaternion"},
                  args : EulerInputAngles \X EulerInputAngles \X EulerInputAngles
                         \X EulerOrders,
                  result : {Pending}, origin : {NoCall}]
     \/ call \in [fn : {"quaternionToEuler"}, args : UnitRotations \X EulerOrders,
                  result : {Pending}, origin : {NoCall}]
     \/ call \in [fn : {"applyTransform"}, heap : MatrixObjects \X MatrixObjects,
                  args : {<<1, 2>>, <<2, 1>>, <<1, 1>>},
                  result : {Pending}, origin : {NoCall}]
     \/ call \in [fn : {"createTransformMatrix"}, heap : {<<pose>> : pose \in PoseObjects},
                  args : {<<1>>}, result : {Pending}, origin : {NoCall}]
     \/ call \in [fn : {"matrixToPose"}, heap : {<<matrix>> : matrix \in MatrixObjects},
                  args : {<<1>>}, result : {Pending}, origin : {NoCall}]
     \/ call \in [fn : {"normalizeQuaternion"}, heap : {<<q>> : q \in Quats},
                  args : {<<1>>}, result : {Pending}, origin : {NoCall}]
     \/ call \in [fn : {"identityPose"}, heap : {<<>>},
                  args : {<<>>}, result : {Pending}, origin : {NoCall}]

formatNumberCall ==
  /\ call.fn = "formatNumber"
  /\ call.result = Pending
  /\ call' = [call EXCEPT !.result = formatNumber(call.args[1], call.args[2])]
  /\ UNCHANGED <<inputPose, transform, zeroDetGuard, memo, rotationMode, componentVars>>

eulerToQuaternionCall ==
  /\ call.fn = "eulerToQuaternion"
  /\ call.result = Pending
  /\ call' = [call EXCEPT !.result =
                Return(eulerToQuaternion(call.args[1], call.args[2], call.args[3],
                                         call.args[4]))]
  /\ UNCHANGED <<inputPose, transform, zeroDetGuard, memo, rotationMode, componentVars>>

quaternionToEulerCall ==
  /\ call.fn = "quaternionToEuler"
  /\ call.result = Pending
  /\ call' = [call EXCEPT !.result = Return(quaternionToEuler(call.args[1], call.args[2]))]
  /\ UNCHANGED <<inputPose, transform, zeroDetGuard, memo, rotationMode, componentVars>>

\* the angles that quaternionToEuler returned are passed to eulerToQuaternion
eulerToQuaternionOfResult(order) ==
  /\ call.fn = "quaternionToEuler"
  /\ call.result.kind = "return"
  /\ ChainLength(call) < MaxChain
  /\ call' = [fn |-> "eulerToQuaternion",
              args |-> <<call.result.value.x, call.result.value.y,
                         call.result.value.z, order>>,
              result |-> Pending, origin |-> call]
  /\ UNCHANGED <<inputPose, transform, zeroDetGuard, memo, rotationMode, componentVars>>

\* the quaternion that eulerToQuaternion returned is passed to
\* quaternionToEuler, with the same order
quaternionToEulerOfResult ==
  /\ call.fn = "eulerToQuaternion"
  /\ call.result.kind = "return"
  /\ ChainLength(call) < MaxChain
  /\ call' = [fn |-> "quaternionToEuler", args |-> <<call.result.value, call.args[4]>>,
              result |-> Pending, origin |-> call]
  /\ UNCHANGED <<inputPose, transform, zeroDetGuard, memo, rotationMode, componentVars>>

\* a function is run on its objects: the outcome is the heap it leaves and
\* the reference it returns
ObjectCall ==
  /\ call.fn \in ObjectFunctions
  /\ call.result = Pending
  /\ call' = [call EXCEPT !.result = Return(RunObject(call.fn, call.heap, call.args))]
  /\ UNCHANGED <<inputPose, transform, zeroDetGuard, memo, rotationMode, componentVars>>

\* identityTransform() is called after identityPose(), as the initial values
\* of the two useState cells of the App are computed
identityTransformAfterIdentityPose ==
  /\ call.fn = "identityPose"
  /\ call.result.kind = "return"
  /\ call' = [fn |-> "identityTransform", heap |-> call.result.value.heap,
              args |-> <<>>, result |-> Pending, origin |-> call]
  /\ UNCHANGED <<inputPose, transform, zeroDetGuard, memo, rotationMode, componentVars>>

\* the caller writes a field of the pose that the identityPose() call returned
WritePosition(position) ==
  /\ call.fn = "identityTransform"
  /\ call.result.kind = "return"
  /\ call' = [fn |-> "write", heap |-> call.result.value.heap,
              args |-> <<call.origin.result.value.ref>>,
              result |-> Return([heap |-> [call.result.value.heap EXCEPT
                                            ![call.origin.result.value.ref].position = position],
                                 ref |-> call.origin.result.value.ref]),
              origin |-> call]
  /\ UNCHANGED <<inputPose, transform, zeroDetGuard, memo, rotationMode, componentVars>>

NextCalls ==
  \/ formatNumberCall
  \/ ObjectCall
  \/ identityTransformAfterIdentityPose
  \/ \E position \in Positions : WritePosition(position)
  \/ eulerToQuaternionCall
  \/ quaternionToEulerCall
  \/ \E order \in EulerOrders : eulerToQuaternionOfResult(order)
  \/ quaternionToEulerOfResult

SpecCalls == InitCalls /\ [][NextCalls]_vars

-----------------------------------------------------------------------------
(* src/src/components/PoseInput.tsx: the events of the two PoseInputs and   *)
(* of the buttons of the cards, each with the render and the effects that   *)
(* follow it before the next event.  A typed value is the text of the       *)
(* field, a sequence of characters.  An angle that is typed is kept when it *)
(* is one the model represents (see Radians).                               *)

\* the digits at the start of a text, as a number, and how many there are
RECURSIVE LeadingDigits(_, _, _)
LeadingDigits(text, count, number) ==
  IF text # <<>> /\ \E d \in 1..10 : DigitChars[d] = Head(text)
  THEN LeadingDigits(Tail(text), count + 1,
                     10 * number + (CHOOSE d \in 0..9 : DigitChars[d + 1] = Head(text)))
  ELSE [count |-> count, number |-> number, rest |-> text]

\* does text start with prefix
StartsWith(text, prefix) ==
  Len(text) >= Len(prefix) /\ SubSeq(text, 1, Len(prefix)) = prefix

\* parseFloat(value): a sign, then Infinity or digits with an optional
\* fraction; what follows is ignored, and NaN when there is no digit
\* (exponents are not typed here)
parseFloat(value) ==
  LET neg == value # <<>> /\ Head(value) = "-"
      body == IF value # <<>> /\ Head(value) \in {"-", "+"} THEN Tail(value) ELSE value
      int == LeadingDigits(body, 0, 0)
      frac == IF int.rest # <<>> /\ Head(int.rest) = "."
              THEN LeadingDigits(Tail(int.rest), 0, 0)
              ELSE [count |-> 0, number |-> 0, rest |-> int.rest]
  IN  IF StartsWith(body, <<"I", "n", "f", "i", "n", "i", "t", "y">>)
      THEN (IF neg THEN NInf ELSE PInf)
      ELSE IF int.count = 0 /\ frac.count = 0 THEN NaN
      ELSE Rat((IF neg THEN -1 ELSE 1) * (int.number * Pow10(frac.count) + frac.number),
               Pow10(frac.count))

\* const num = value === '' || value === '-' ? 0 : parseFloat(value)
typedNumber(value) == IF value = <<>> \/ value = <<"-">> THEN Zero ELSE parseFloat(value)

\* an angle the model does not represent
AngleUnrep == Angle(Unrep, Unrep)

\* useDegrees ? num * (Math.PI / 180) : num, as an angle: the multiples of
\* 90 degrees from -90 to 180, and 0 radians, are represented
Radians(num, degrees) ==
  IF num = Zero THEN AngleZero
  ELSE IF ~degrees THEN AngleUnrep
  ELSE IF num = Int2Num(90) THEN Angle(Zero, One)
  ELSE IF num = Int2Num(-90) THEN Angle(Zero, Int2Num(-1))
  ELSE IF num = Int2Num(180) THEN Angle(Int2Num(-1), Zero)
  ELSE AngleUnrep

\* the pose that a card edits
PoseOf(card) == IF card = "pose" THEN inputPose ELSE transform

\* PoseCard / TransformCard: onPoseChange(pose) is setInputPose / setTransform,
\* and the App renders
onPoseChange(card, pose) ==
  /\ inputPose' = IF card = "pose" THEN pose ELSE inputPose
  /\ transform' = IF card = "transform" THEN pose ELSE transform
  /\ memo' = Render(memo, inputPose, transform, inputPose', transform')

\* mutant: the effect does not depend on rotationMode
useEffectNoMode(mode, oldMode, order, oldOrder, quaternion, written, angles) ==
  IF mode = "quaternion" /\ (written \/ order # oldOrder)
  THEN quaternionToEuler(quaternion, order)
  ELSE angles

\* PoseInput, lines 33-38: the eulerAngles of a card after the effects of a
\* render.  mode, order and quaternion are those of the render, oldMode and
\* oldOrder those of the render before, written tells that the quaternion
\* prop is another object than before, angles is the state the handler left.
\* The effect runs when one of [quaternion, eulerOrder, rotationMode] changed.
useEffect(mode, oldMode, order, oldOrder, quaternion, written, angles) ==
  IF mode = "quaternion" /\ (written \/ order # oldOrder \/ mode # oldMode)
  THEN quaternionToEuler(quaternion, order)
  ELSE angles

\* the effect of a card whose mode and order stay, after its quaternion prop
\* was replaced
syncEuler(card, quaternion) ==
  useEffect(rotationMode[card], rotationMode[card], eulerOrder[card], eulerOrder[card],
            quaternion, TRUE, eulerAngles[card])

\* the numbers of a quaternion and of three angles
NumsOfQuat(q) == {q.x, q.y, q.z, q.w}
NumsOfAngles(e) == {e.x.c, e.x.s, e.y.c, e.y.s, e.z.c, e.z.s}

\* the quaternions that the events are followed to: the ones typed with the
\* keys below, (0, y, z, w) with y and z in {0, 1/2} and w in {0, 1}; the
\* unit quaternions whose components are 0, sqrt(2)/2, 1 or their opposites;
\* the quaternion whose components are all NaN
FollowedQuaternion(q) ==
  \/ /\ q.x = Zero /\ q.y \in {Zero, Half} /\ q.z \in {Zero, Half} /\ q.w \in {Zero, One}
  \/ /\ \A n \in NumsOfQuat(q) : IsNum(n) /\ Abs(n.n) <= 1 /\ n.d <= 2
                                   /\ (n.n = 0 \/ n.k = n.d)
     /\ quaternionMagnitude(q) = One
  \/ \A n \in NumsOfQuat(q) : IsNaN(n)

\* PoseInput.handlePositionChange(axis, value)
handlePositionChange(card, axis, value) ==
  /\ IF ~IsNaN(typedNumber(value))
     THEN onPoseChange(card, [PoseOf(card) EXCEPT !.position[axis] = typedNumber(value)])
     ELSE UNCHANGED <<inputPose, transform, memo>>
  /\ UNCHANGED <<zeroDetGuard, call, outsideVars, rotationMode, eulerVars>>

\* PoseInput.handleQuaternionChange(axis, value), from a field of the
\* quaternion mode
handleQuaternionChange(card, axis, value) ==
  /\ rotationMode[card] = "quaternion"
  /\ IF ~IsNaN(typedNumber(value))
     THEN \E quaternion \in {[PoseOf(card).quaternion EXCEPT ![axis] = typedNumber(value)]} :
            /\ FollowedQuaternion(quaternion)
            /\ onPoseChange(card, [PoseOf(card) EXCEPT !.quaternion = quaternion])
            /\ eulerAngles' = [eulerAngles EXCEPT ![card] = syncEuler(card, quaternion)]
     ELSE UNCHANGED <<inputPose, transform, memo, eulerAngles>>
  /\ UNCHANGED <<zeroDetGuard, call, outsideVars, rotationMode, eulerOrder, useDegrees>>

\* a click on Normalize: PoseInput.handleNormalize
NormalizeClick(card) ==
  /\ NormalizeShown(card)
  /\ IF Gt(magnitude[card], Zero)
     THEN \E quaternion \in {handleNormalize(card)} :
            /\ FollowedQuaternion(quaternion)
            /\ onPoseChange(card, [PoseOf(card) EXCEPT !.quaternion = quaternion])
            /\ eulerAngles' = [eulerAngles EXCEPT ![card] = syncEuler(card, quaternion)]
     ELSE UNCHANGED <<inputPose, transform, memo, eulerAngles>>
  /\ UNCHANGED <<zeroDetGuard, call, outsideVars, rotationMode, eulerOrder, useDegrees>>

\* PoseInput.handleEulerChange(axis, value), from a field of the Euler mode;
\* followed when the angle and the quaternion are represented
handleEulerChange(card, axis, value) ==
  /\ rotationMode[card] = "euler"
  /\ IF ~IsNaN(typedNumber(value))
     THEN \E newEuler \in {[eulerAngles[card] EXCEPT
                              ![axis] = Radians(typedNumber(value), useDegrees[card])]} :
            \E newQuat \in {eulerToQuaternion(newEuler.x, newEuler.y, newEuler.z,
                                              eulerOrder[card])} :
              /\ Unrep \notin NumsOfAngles(newEuler)
              /\ FollowedQuaternion(newQuat)
              /\ eulerAngles' = [eulerAngles EXCEPT ![card] = newEuler]
              /\ onPoseChange(card, [PoseOf(card) EXCEPT !.quaternion = newQuat])
     ELSE UNCHANGED <<inputPose, transform, memo, eulerAngles>>
  /\ UNCHANGED <<zeroDetGuard, call, outsideVars, rotationMode, eulerOrder, useDegrees>>

\* the select of the Euler mode: setEulerOrder(e.target.value); the effect
\* runs and stores nothing, the mode is 'euler'
selectEulerOrder(card, order) ==
  /\ rotationMode[card] = "euler"
  /\ eulerOrder' = [eulerOrder EXCEPT ![card] = order]
  /\ eulerAngles' = [eulerAngles EXCEPT ![card] =
                       useEffect("euler", "euler", order, eulerOrder[card],
                                 PoseOf(card).quaternion, FALSE, eulerAngles[card])]
  /\ UNCHANGED <<inputPose, transform, memo, zeroDetGuard, call, outsideVars, rotationMode, useDegrees>>

\* the checkbox of the Euler mode: setUseDegrees(e.target.checked)
checkDegrees(card, checked) ==
  /\ rotationMode[card] = "euler"
  /\ useDegrees' = [useDegrees EXCEPT ![card] = checked]
  /\ UNCHANGED <<inputPose, transform, memo, zeroDetGuard, call, outsideVars, rotationMode,
                 eulerOrder, eulerAngles>>

\* a click on one of the two mode buttons: setRotationMode(mode), and the
\* effect of the render that follows
clickRotationMode(card, mode) ==
  /\ rotationMode' = [rotationMode EXCEPT ![card] = mode]
  /\ eulerAngles' = [eulerAngles EXCEPT ![card] =
                       useEffect(mode, rotationMode[card], eulerOrder[card], eulerOrder[card],
                                 PoseOf(card).quaternion, FALSE, eulerAngles[card])]
  /\ UNCHANGED <<inputPose, transform, memo, zeroDetGuard, call, outsideVars, eulerOrder, useDegrees>>

\* a click on 'Reset to Origin' or 'Reset to Identity': App.handleResetPose,
\* App.handleResetTransform; the quaternion of the card is a new object
clickReset(card) ==
  /\ onPoseChange(card, IF card = "pose" THEN identityPose ELSE identityTransform)
  /\ eulerAngles' = [eulerAngles EXCEPT ![card] = syncEuler(card, identityPose.quaternion)]
  /\ UNCHANGED <<zeroDetGuard, call, outsideVars, rotationMode, eulerOrder, useDegrees>>

\* the largest |x| + |y| + |z| of a result that 'Use as New Input' is followed to
MaxResult == 1

\* the results that 'Use as New Input' is followed to: a coordinate is NaN
\* or an integer, the |coordinates| that are numbers add up to MaxResult at
\* most, the quaternion is one that is followed
FollowedResult(pose) ==
  /\ \A c \in {pose.position.x, pose.position.y, pose.position.z} :
       IsNaN(c) \/ (IsNum(c) /\ c.d = 1 /\ c.k = 1)
  /\ Abs(pose.position.x.n) + Abs(pose.position.y.n) + Abs(pose.position.z.n) <= MaxResult
  /\ FollowedQuaternion(pose.quaternion)

\* a click on 'Use as New Input': App.handleUseAsInput, and the effects of
\* the two PoseInputs, whose quaternions are new objects
\* what handleUseAsInput stores and what the render after it computes: the
\* result pose captured by the callback, the identity transform, and the
\* memo cells of the next render
afterUseAsInput ==
  [inputPose |-> capturedResultPose,
   transform |-> identityTransform,
   memo      |-> Render(memo, inputPose, transform, capturedResultPose,
                        identityTransform)]

clickUseAsInput ==
  \E after \in {afterUseAsInput} :
    /\ FollowedResult(after.inputPose)
    /\ inputPose' = after.inputPose
    /\ transform' = after.transform
    /\ memo' = after.memo
    /\ eulerAngles' =
         [card \in Cards |->
            syncEuler(card, IF card = "pose" THEN after.inputPose.quaternion
                            ELSE after.transform.quaternion)]
    /\ UNCHANGED <<zeroDetGuard, call, outsideVars, rotationMode, eulerOrder, useDegrees>>

\* the keys that are followed: (axis, text) for the position fields, the
\* quaternion fields and the Euler fields of a card
PositionKeys(card) ==
  IF card = "pose"
  THEN {<<"x", <<"1">>>>, <<"x", <<>>>>, <<"y", <<"a", "b", "c">>>>}
  ELSE {<<"x", <<"1">>>>, <<"x", <<"-">>>>}

QuaternionKeys(card) ==
  IF card = "pose"
  THEN {<<"w", <<>>>>, <<"y", <<"0", ".", "5">>>>,
        <<"z", <<"0", ".", "5">>>>, <<"x", <<"a", "b", "c">>>>}
  ELSE {}

EulerKeys ==
  {<<"x", <<"9", "0">>>>, <<"y", <<"9", "0">>>>, <<"x", <<>>>>, <<"y", <<".">>>>,
   <<"z", <<"1">>>>}

\* the cards whose Euler mode is entered
EulerCards == {"pose"}

\* the orders that are selected
SelectedOrders == {"XYZ", "ZYX"}

NextPoseInput ==
  \/ \E card \in Cards : \E key \in PositionKeys(card) :
       handlePositionChange(card, key[1], key[2])
  \/ \E card \in Cards : \E key \in QuaternionKeys(card) :
       handleQuaternionChange(card, key[1], key[2])
  \/ \E card \in Cards : NormalizeClick(card)
  \/ \E card \in EulerCards : \E key \in EulerKeys :
       handleEulerChange(card, key[1], key[2])
  \/ \E card \in EulerCards, order \in SelectedOrders : selectEulerOrder(card, order)
  \/ \E card \in EulerCards, checked \in BOOLEAN : checkDegrees(card, checked)
  \/ \E card \in EulerCards, mode \in {"quaternion", "euler"} : clickRotationMode(card, mode)
  \/ \E card \in Cards : clickReset(card)
  \/ clickUseAsInput

SpecPoseInput == Init /\ [][NextPoseInput]_vars

-----------------------------------------------------------------------------
(* src/src/components/PoseVisualizer3D.tsx, lines 282-364 (MatrixDisplay), *)
(* and src/unnamed/part_002 (ResultCard): the Copy buttons.  A click calls *)
(* navigator.clipboard.writeText and awaits it; the browser settles the    *)
(* write later, with success or with failure; setTimeout(f, 2000) runs f   *)
(* once, 2000 ms later or later than that, and no handler cancels a timer. *)

\* the delay of setTimeout(() => setCopied(false), 2000), in ms
CopiedMs == 2000

\* the time passes in steps of TickMs, up to MaxNow
TickMs == 1000
MaxNow == 4000

\* the writes and timers that are followed at one time, and the logged errors
MaxPending == 2
MaxErrors == 2

RECURSIVE SumOver(_, _)
SumOver(f, S) ==
  IF S = {} THEN 0
  ELSE LET x == CHOOSE y \in S : TRUE IN f[x] + SumOver(f, S \ {x})

Outstanding ==
  SumOver([ind \in Indicators |-> writes[ind] + Len(timers[ind])], Indicators)

\* handleCopy / copyPosition / copyQuaternion up to the await: the text is
\* built and handed to navigator.clipboard.writeText
clickCopy(ind) ==
  /\ Outstanding < MaxPending
  /\ writes' = [writes EXCEPT ![ind] = @ + 1]
  /\ UNCHANGED <<copied, collapsed, timers, clock, consoleErrors>>
  /\ UNCHANGED <<inputPose, transform, zeroDetGuard, call, memo, rotationMode, eulerVars,
               sceneVars>>

\* the catch branch with setCopied(true) in it
writeTextRejectsShows(ind) ==
  /\ writes[ind] > 0
  /\ consoleErrors < MaxErrors
  /\ writes' = [writes EXCEPT ![ind] = @ - 1]
  /\ copied' = [copied EXCEPT ![ind] = TRUE]
  /\ consoleErrors' = consoleErrors + 1
  /\ UNCHANGED <<collapsed, timers, clock>>
  /\ UNCHANGED <<inputPose, transform, zeroDetGuard, call, memo, rotationMode, eulerVars,
               sceneVars>>

\* the write succeeded: the rest of the try block, setCopied(true) and
\* setTimeout(() => setCopied(false), 2000)
writeTextResolves(ind) ==
  /\ writes[ind] > 0
  /\ writes' = [writes EXCEPT ![ind] = @ - 1]
  /\ copied' = [copied EXCEPT ![ind] = TRUE]
  /\ timers' = [timers EXCEPT ![ind] = Append(@, clock + CopiedMs)]
  /\ UNCHANGED <<collapsed, clock, consoleErrors>>
  /\ UNCHANGED <<inputPose, transform, zeroDetGuard, call, memo, rotationMode, eulerVars,
               sceneVars>>

\* the write failed: the catch block, console.error('Failed to copy:', err)
writeTextRejects(ind) ==
  /\ writes[ind] > 0
  /\ consoleErrors < MaxErrors
  /\ writes' = [writes EXCEPT ![ind] = @ - 1]
  /\ consoleErrors' = consoleErrors + 1
  /\ UNCHANGED <<copied, collapsed, timers, clock>>
  /\ UNCHANGED <<inputPose, transform, zeroDetGuard, call, memo, rotationMode, eulerVars,
               sceneVars>>

\* the callback of the oldest timer of a button, once it is due:
\* () => setCopied(false)
timerFires(ind) ==
  /\ timers[ind] # <<>>
  /\ Head(timers[ind]) <= clock
  /\ timers' = [timers EXCEPT ![ind] = Tail(@)]
  /\ copied' = [copied EXCEPT ![ind] = FALSE]
  /\ UNCHANGED <<collapsed, writes, clock, consoleErrors>>
  /\ UNCHANGED <<inputPose, transform, zeroDetGuard, call, memo, rotationMode, eulerVars,
               sceneVars>>

\* the header of the MatrixDisplay: onClick={() => setCollapsed(!collapsed)}
clickHeader ==
  /\ collapsed' = ~collapsed
  /\ UNCHANGED <<copied, writes, timers, clock, consoleErrors>>
  /\ UNCHANGED <<inputPose, transform, zeroDetGuard, call, memo, rotationMode, eulerVars,
               sceneVars>>

\* TickMs pass
Tick ==
  /\ clock + TickMs <= MaxNow
  /\ clock' = clock + TickMs
  /\ UNCHANGED <<copied, collapsed, writes, timers, consoleErrors>>
  /\ UNCHANGED <<inputPose, transform, zeroDetGuard, call, memo, rotationMode, eulerVars,
               sceneVars>>

\* the Copy buttons, the header, the clock, and a pose that is edited and
\* reset between the copies
NextCopy ==
  \/ \E ind \in Indicators : clickCopy(ind)
  \/ \E ind \in Indicators : writeTextResolves(ind)
  \/ \E ind \in Indicators : writeTextRejects(ind)
  \/ \E ind \in Indicators : timerFires(ind)
  \/ clickHeader
  \/ Tick
  \/ handlePositionChange("pose", "x", <<"1">>)
  \/ clickReset("pose")

SpecCopy == Init /\ [][NextCopy]_vars

-----------------------------------------------------------------------------
(* src/unnamed/part_000: the frames and the prop changes of the            *)
(* PoseVisualizer3D.  requestAnimationFrame(animate) of line 296 schedules *)
(* every next frame.                                                       *)

\* the prop changes that are followed
MaxPoseChanges == 2

\* the input and result positions that the App hands over: both at the
\* origin, the result 12.8 m away, the result 384 m away, and, from the
\* builds of three without the guard of decompose, a result that is NaN
ScenePoses ==
  {<<OnLine(0), OnLine(0)>>, <<OnLine(0), OnLine(1)>>, <<OnLine(0), OnLine(30)>>,
   <<OnLine(0), NaNVector>>}

\* one frame of the animation loop
animationFrame ==
  /\ scene' = animate(scene)
  /\ UNCHANGED <<inputPose, transform, zeroDetGuard, call, memo, rotationMode,
                 eulerVars, copyVars>>

\* a render with changed props, and its effect
propsChange(inputPos, resultPos) ==
  /\ scene.poseChanges < MaxPoseChanges
  /\ AnyNaN(resultPos) => ~zeroDetGuard
  /\ scene' = updatePoses([scene EXCEPT !.poseChanges = @ + 1], inputPos, resultPos)
  /\ UNCHANGED <<inputPose, transform, zeroDetGuard, call, memo, rotationMode,
                 eulerVars, copyVars>>

NextScene ==
  \/ animationFrame
  \/ \E poses \in ScenePoses : propsChange(poses[1], poses[2])

SpecScene == Init /\ [][NextScene]_vars

\* the browser runs every frame that requestAnimationFrame has scheduled
SpecSceneFair == SpecScene /\ WF_vars(animationFrame)

-----------------------------------------------------------------------------
(* Vocabulary of the properties *)

NumsOfPose(p) ==
  {p.position.x, p.position.y, p.position.z,
   p.quaternion.x, p.quaternion.y, p.quaternion.z, p.quaternion.w}

NumsOfMatrix(m) == {m[i] : i \in 1..16}

\* every number of the state and of its memoized values is one the model
\* represents exactly
ModelExact ==
  Unrep \notin NumsOfPose(inputPose) \cup NumsOfPose(transform) \cup NumsOfPose(resultPose)
               \cup NumsOfMatrix(inputMatrix) \cup NumsOfMatrix(transformMatrix)
               \cup NumsOfMatrix(resultMatrix) \cup {magnitude[c] : c \in Cards}

\* row i, column j (0..3) of a matrix, read from the column-major elements
Entry(m, i, j) == El(m, 4 * j + i)

\* the matrix product written entry by entry
Product(a, b) ==
  [idx \in 1..16 |->
     LET i == (idx - 1) % 4
         j == (idx - 1) \div 4
     IN Add(Mul(Entry(a, i, 0), Entry(b, 0, j)),
            Add(Mul(Entry(a, i, 1), Entry(b, 1, j)),
                Add(Mul(Entry(a, i, 2), Entry(b, 2, j)),
                    Mul(Entry(a, i, 3), Entry(b, 3, j)))))]

SameMatrix(a, b) == \A idx \in 1..16 : a[idx] = b[idx]

IdentityMatrix == createTransformMatrix(identityPose)

IsUnit(q) == quaternionMagnitude(q) = One

NegQuat(q) == Quat(Neg(q.x), Neg(q.y), Neg(q.z), Neg(q.w))

SameUpToSign(q, r) == q = r \/ q = NegQuat(r)

VAdd(u, v) == Vec(Add(u.x, v.x), Add(u.y, v.y), Add(u.z, v.z))
VSub(u, v) == Vec(Sub(u.x, v.x), Sub(u.y, v.y), Sub(u.z, v.z))

\* the Hamilton product a b of two quaternions
QMul(a, b) ==
  Quat(Add(Add(Mul(a.w, b.x), Mul(a.x, b.w)), Sub(Mul(a.y, b.z), Mul(a.z, b.y))),
       Add(Sub(Mul(a.w, b.y), Mul(a.x, b.z)), Add(Mul(a.y, b.w), Mul(a.z, b.x))),
       Add(Add(Mul(a.w, b.z), Mul(a.x, b.y)), Sub(Mul(a.z, b.w), Mul(a.y, b.x))),
       Sub(Sub(Mul(a.w, b.w), Mul(a.x, b.x)), Add(Mul(a.y, b.y), Mul(a.z, b.z))))

QConj(q) == Quat(Neg(q.x), Neg(q.y), Neg(q.z), q.w)

\* the vector v turned by the unit quaternion q: q v q*
Rotate(q, v) ==
  LET r == QMul(QMul(q, Quat(v.x, v.y, v.z, Zero)), QConj(q))
  IN Vec(r.x, r.y, r.z)

\* the sum of the squares of the components
NormSq(q) == Add(Add(Add(Mul(q.x, q.x), Mul(q.y, q.y)), Mul(q.z, q.z)), Mul(q.w, q.w))

BothUnit == IsUnit(inputPose.quaternion) /\ IsUnit(transform.quaternion)

\* the two matrices of the state commute under applyTransform
Commute == SameMatrix(resultMatrix, applyTransform(transformMatrix, inputMatrix))

-----------------------------------------------------------------------------
(* Properties *)

\* C1: the result matrix is the product with the input (pose) matrix on the
\* left and the transform matrix on the right: entry (i, j) is the sum over k
\* of input(i, k) * transform(k, j).
C1_ProductOrder ==
  \A shown \in {<<resultMatrix, Product(inputMatrix, transformMatrix)>>} :
    \A i \in 0..3, j \in 0..3 : Entry(shown[1], i, j) = Entry(shown[2], i, j)

\* C1 witness: a rendered state where the two orders of the product differ
C1_Witness ==
  /\ ~SameMatrix(Product(inputMatrix, transformMatrix), Product(transformMatrix, inputMatrix))
  /\ SameMatrix(resultMatrix, Product(inputMatrix, transformMatrix))
  /\ IsUnit(inputPose.quaternion) /\ IsUnit(transform.quaternion)

\* C2: the matrix of the identity pose is neutral on both sides, for every
\* matrix the App holds; so an identity input pose shows the transform matrix
\* as the result, and an identity transform shows the input matrix.
C2_IdentityNeutral ==
  /\ \A m \in {inputMatrix, transformMatrix, resultMatrix} :
       /\ SameMatrix(applyTransform(IdentityMatrix, m), m)
       /\ SameMatrix(applyTransform(m, IdentityMatrix), m)
  /\ inputPose = identityPose => SameMatrix(resultMatrix, transformMatrix)
  /\ transform = identityTransform => SameMatrix(resultMatrix, inputMatrix)

\* C2 witness: an identity input pose and a transform that moves and rotates
C2_Witness ==
  /\ inputPose = identityPose
  /\ transform.position # identityPose.position
  /\ transform.quaternion = RotX74
  /\ SameMatrix(resultMatrix, transformMatrix)

\* C3 as claimed: from unit-quaternion poses, the two products are equal
\* whenever the quaternions are equal (whatever the positions) or one of the
\* matrices is the identity transform.
C3_Original ==
  BothUnit /\ (\/ inputPose.quaternion = transform.quaternion
               \/ inputPose = identityPose
               \/ transform = identityTransform)
    => Commute

\* C3 amended: from unit-quaternion poses, the two products are equal when one
\* of the poses is the identity; with equal quaternions they are equal exactly
\* when the rotation leaves the difference of the two positions unchanged.
C3_Amended ==
  BothUnit =>
    /\ inputPose = identityPose \/ transform = identityTransform => Commute
    /\ inputPose.quaternion = transform.quaternion =>
         (Commute <=>
            LET diff == VSub(transform.position, inputPose.position)
            IN Rotate(inputPose.quaternion, diff) = diff)

\* C3 witness: the same rotation about X at two positions on the X axis
C3_Witness ==
  /\ inputPose.quaternion = RotX74
  /\ transform.quaternion = RotX74
  /\ inputPose.position # transform.position
  /\ Commute

\* C4: local frame.  From unit quaternions, the result pose is at
\* P.position + rotate(P.quaternion, T.position) with rotation
\* P.quaternion * T.quaternion up to sign.
C4_LocalFrame ==
  BothUnit =>
    /\ resultPose.position =
         VAdd(inputPose.position, Rotate(inputPose.quaternion, transform.position))
    /\ SameUpToSign(resultPose.quaternion, QMul(inputPose.quaternion, transform.quaternion))

\* C4 witness: two rotations, where the world-frame position
\* T.position + rotate(T.quaternion, P.position) differs from the result
C4_Witness ==
  /\ BothUnit
  /\ inputPose.quaternion = RotZ90
  /\ transform.quaternion = RotX74
  /\ resultPose.position =
       VAdd(inputPose.position, Rotate(inputPose.quaternion, transform.position))
  /\ resultPose.position #
       VAdd(transform.position, Rotate(transform.quaternion, inputPose.position))

\* the pose and the matrix a card shows
CardPose(card) == IF card = "pose" THEN inputPose ELSE transform
CardMatrix(card) == IF card = "pose" THEN inputMatrix ELSE transformMatrix

\* C5: round trip.  For a pose of unit quaternion, matrixToPose of its matrix
\* has exactly its position and its quaternion or the negation of it.
C5_RoundTrip ==
  \A card \in Cards :
    IsUnit(CardPose(card).quaternion) =>
      /\ matrixToPose(CardMatrix(card)).position = CardPose(card).position
      /\ SameUpToSign(matrixToPose(CardMatrix(card)).quaternion, CardPose(card).quaternion)

\* C5 witness: a pose away from the origin whose quaternion comes back negated
C5_Witness ==
  /\ inputPose.quaternion = MinusIdentity
  /\ inputPose.position # identityPose.position
  /\ matrixToPose(inputMatrix).position = inputPose.position
  /\ matrixToPose(inputMatrix).quaternion = NegQuat(inputPose.quaternion)

\* matrixToPose of the three matrices of the state gives a quaternion of
\* magnitude 1 and a position of defined numbers
UnitPoses ==
  \A p \in {matrixToPose(inputMatrix), matrixToPose(transformMatrix),
             matrixToPose(resultMatrix)} :
    /\ IsUnit(p.quaternion)
    /\ IsNum(p.position.x)
    /\ IsNum(p.position.y)
    /\ IsNum(p.position.z)

\* C6 as claimed: matrixToPose returns a unit quaternion and a defined
\* position for every matrix built from poses of non-zero quaternion,
\* normalized or not.
C6_Original ==
  Gt(magnitude["pose"], Zero) /\ Gt(magnitude["transform"], Zero) => UnitPoses

\* C6 amended: matrixToPose returns a unit quaternion and a defined position
\* for every matrix built from poses whose quaternions have unit norm.
C6_Amended == BothUnit => UnitPoses

\* C6 witness: two unit rotations composed
C6_Witness ==
  /\ inputPose.quaternion = RotX90
  /\ transform.quaternion = RotZ90
  /\ transform.position # identityPose.position
  /\ resultPose.quaternion = Quat(Half, Neg(Half), Half, Half)
  /\ UnitPoses

\* C7: matrixToArray shows the column-major matrix row-major,
\* array[i][j] = elements[4 j + i]; the array of a pose's matrix has the
\* position in column 3 of rows 0..2 and the last row (0, 0, 0, 1).
C7_RowMajor ==
  /\ \A shown \in {<<inputMatrixArray, inputMatrix>>,
                    <<transformMatrixArray, transformMatrix>>,
                    <<resultMatrixArray, resultMatrix>>} :
       \A i \in 0..3, j \in 0..3 : shown[1][i + 1][j + 1] = El(shown[2], 4 * j + i)
  /\ \A arr \in {<<inputMatrixArray, inputPose>>, <<transformMatrixArray, transform>>} :
       /\ arr[1][1][4] = arr[2].position.x
       /\ arr[1][2][4] = arr[2].position.y
       /\ arr[1][3][4] = arr[2].position.z
       /\ arr[1][4] = <<Zero, Zero, Zero, One>>

\* C7 witness: a pose away from the origin whose matrix is not symmetric
C7_Witness ==
  /\ inputPose.position.y = One
  /\ inputMatrixArray[2][4] = One
  /\ inputMatrixArray[1][2] = Int2Num(-1)
  /\ inputMatrixArray[2][1] = One

\* C8: with an input pose of identity rotation at p and a transform (t, q) of
\* unit quaternion, the result is at p + t with quaternion q up to sign; the
\* identity input with the translation (1,0,0) gives ((1,0,0), (0,0,0,1)), and
\* the input at (1,0,0) with the rotation of 90 degrees about Z gives (1,0,0)
\* and the quaternion of the transform.
C8_IdentityRotationInput ==
  /\ inputPose.quaternion = identityPose.quaternion /\ IsUnit(transform.quaternion) =>
       /\ resultPose.position = VAdd(inputPose.position, transform.position)
       /\ SameUpToSign(resultPose.quaternion, transform.quaternion)
  /\ inputPose = identityPose
       /\ transform = Pose(Vec(One, Zero, Zero), identityPose.quaternion) =>
       resultPose = Pose(Vec(One, Zero, Zero), Quat(Zero, Zero, Zero, One))
  /\ inputPose = Pose(Vec(One, Zero, Zero), identityPose.quaternion)
       /\ transform = Pose(Vec(Zero, Zero, Zero), RotZ90) =>
       resultPose = Pose(Vec(One, Zero, Zero), RotZ90)

\* C8 witness: the input at (1,0,0) and the rotation of 90 degrees about Z
C8_Witness ==
  /\ inputPose = Pose(Vec(One, Zero, Zero), identityPose.quaternion)
  /\ transform = Pose(Vec(Zero, Zero, Zero), RotZ90)
  /\ resultPose.position = Vec(One, Zero, Zero)
  /\ resultPose.quaternion = transform.quaternion

\* C9: isQuaternionNormalized(q, tolerance) holds exactly when
\* | |q| - 1 | < tolerance, |q| the square root of the sum of the squares:
\* with the default 0.001, exactly when 0.999^2 < x^2+y^2+z^2+w^2 < 1.001^2.
\* (0,0,0,1) is normalized; (0,0,0,2), (0,0,0,0) and a magnitude exactly the
\* tolerance away from 1 are not.
C9_Normalized ==
  /\ \A card \in Cards :
       LET q == CardPose(card).quaternion
           lo == Sub(One, DefaultTolerance)
           hi == Add(One, DefaultTolerance)
       IN /\ isNormalized[card] <=>
               Lt(Mul(lo, lo), NormSq(q)) /\ Lt(NormSq(q), Mul(hi, hi))
          /\ Mul(magnitude[card], magnitude[card]) = NormSq(q)
          /\ ~Lt(magnitude[card], Zero)
  /\ isQuaternionNormalized(Quat(Zero, Zero, Zero, One), DefaultTolerance)
  /\ ~isQuaternionNormalized(Quat(Zero, Zero, Zero, Two), DefaultTolerance)
  /\ ~isQuaternionNormalized(Quat(Zero, Zero, Zero, Zero), DefaultTolerance)
  /\ ~isQuaternionNormalized(Quat(Zero, Zero, Zero, Add(One, DefaultTolerance)),
                             DefaultTolerance)
  /\ ~isQuaternionNormalized(Quat(Zero, Zero, Zero, Sub(One, DefaultTolerance)),
                             DefaultTolerance)
  /\ ~isQuaternionNormalized(Quat(Zero, Zero, Zero, Two), One)
  /\ isQuaternionNormalized(Quat(Zero, Zero, Zero, Two), Two)

\* C9 witness: a pose quaternion that is not normalized beside one of
\* irrational components that is
C9_Witness ==
  /\ inputPose.quaternion = Quat(Zero, Half, Half, Zero)
  /\ ~isNormalized["pose"]
  /\ magnitude["pose"] = S2
  /\ transform.quaternion = RotZ90
  /\ isNormalized["transform"]

\* what Normalize leaves of the quaternion q: r is q with each component
\* divided by |q|, of magnitude 1, reported normalized, in the direction of q
Normalized(q, r) ==
  /\ r = Quat(Div(q.x, quaternionMagnitude(q)), Div(q.y, quaternionMagnitude(q)),
              Div(q.z, quaternionMagnitude(q)), Div(q.w, quaternionMagnitude(q)))
  /\ quaternionMagnitude(r) = One
  /\ isQuaternionNormalized(r, DefaultTolerance)
  /\ q = Quat(Mul(r.x, quaternionMagnitude(q)), Mul(r.y, quaternionMagnitude(q)),
              Mul(r.z, quaternionMagnitude(q)), Mul(r.w, quaternionMagnitude(q)))

\* C10: normalizeQuaternion(q), for |q| > 0, is q with each component divided
\* by |q|: of magnitude 1 and normalized; so every Normalize step of a
\* PoseInput leaves its card a normalized quaternion in the direction of the
\* one before, and changes nothing else of the poses.
C10_Normalize ==
  [][/\ PoseCardNormalize =>
          /\ Normalized(inputPose.quaternion, inputPose'.quaternion)
          /\ inputPose'.position = inputPose.position
          /\ transform' = transform
     /\ TransformCardNormalize =>
          /\ Normalized(transform.quaternion, transform'.quaternion)
          /\ transform'.position = transform.position
          /\ inputPose' = inputPose]_vars

\* C10 witness: (1,1,1,1) normalized to (1/2,1/2,1/2,1/2), which no edit types
C10_Witness ==
  /\ inputPose.quaternion = Quat(Half, Half, Half, Half)
  /\ isNormalized["pose"]
  /\ magnitude["pose"] = One

\* C11: the guard on the magnitude is in the handler.  Every Normalize step
\* starts from a quaternion of magnitude > 0, so normalizeQuaternion is never
\* called on a quaternion of magnitude 0; and where a card holds a quaternion
\* whose magnitude is not > 0, handleNormalize leaves the quaternion as it is.
C11_GuardAtCallSite ==
  [][/\ PoseCardNormalize => Gt(quaternionMagnitude(inputPose.quaternion), Zero)
     /\ TransformCardNormalize => Gt(quaternionMagnitude(transform.quaternion), Zero)
     /\ \A card \in Cards :
          ~Gt(quaternionMagnitude(CardPose(card).quaternion), Zero) =>
            handleNormalize(card) = CardPose(card).quaternion]_vars

\* C11 witness: the transform holds the zero quaternion, which the handler
\* leaves alone where normalizeQuaternion would return (0, 0, 0, 1)
C11_Witness ==
  /\ transform.quaternion = Quat(Zero, Zero, Zero, Zero)
  /\ magnitude["transform"] = Zero
  /\ handleNormalize("transform") = transform.quaternion
  /\ normalizeQuaternion(transform.quaternion) = Quat(Zero, Zero, Zero, One)

\* what a finished call of formatNumber returned, as <<n, precision, outcome>>
Formatted ==
  IF call.fn = "formatNumber" /\ call.result # Pending
  THEN {<<call.args[1], call.args[2], call.result>>}
  ELSE {}

\* a text from which only zeros that end the fraction, and a point that ends
\* the text, are removed
StripFraction(text) ==
  IF \E i \in 1..Len(text) : text[i] = "."
  THEN LET cut == Len(text) - TrailingZeros(text)
       IN  IF text[cut] = "." THEN SubSeq(text, 1, cut - 1)
           ELSE SubSeq(text, 1, cut)
  ELSE text

\* the precision is an integer >= 0
NaturalPrecision(precision) ==
  /\ precision.kind = "finite"
  /\ ~precision.neg
  /\ precision.e >= 0

\* C12: for a finite n with |n| >= 1e-10 and a precision >= 0, formatNumber
\* returns n rounded to precision digits, less the zeros that end its
\* fraction and a point that ends it; no digit of the integer part is removed.
C12_RoundedAndStripped ==
  \A f \in Formatted :
    (f[1].kind = "finite" /\ ~AbsBelow1em10(f[1]) /\ NaturalPrecision(f[2])) =>
      f[3] = Return(StripFraction(fixedText(f[1], ToIntegerOrInfinity(f[2]).int)))

\* a text that denotes minus zero: a sign, then zeros and at most a point
NegativeZeroText(text) ==
  /\ Len(text) >= 2
  /\ text[1] = "-"
  /\ \A i \in 2..Len(text) : text[i] \in {"0", "."}

\* C13: formatNumber returns exactly "0" when |n| < 1e-10, and returns a
\* text that denotes minus zero for no n and no precision.
C13_NoNegativeZero ==
  \A f \in Formatted :
    /\ AbsBelow1em10(f[1]) => f[3] = Return(<<"0">>)
    /\ ~NegativeZeroText(f[3].value)

\* C16: no call of a PoseMath function throws, whatever numbers it is given
\* (formatNumber: any number n and any number as precision).
C16_NoThrow == call.result.kind # "throw"

\* the number tested for gimbal lock: the sine of the middle angle, up to sign
MiddleSine(q, order) ==
  LET te == compose(Vec(Zero, Zero, Zero), q, Vec(One, One, One))
  IN  CASE order = "XYZ" -> El(te, 8)
        [] order = "YXZ" -> El(te, 9)
        [] order = "ZXY" -> El(te, 6)
        [] order = "ZYX" -> El(te, 2)
        [] order = "YZX" -> El(te, 1)
        [] order = "XZY" -> El(te, 4)

\* q is a gimbal-lock configuration of the order: the middle angle is +-90 degrees
GimbalLock(q, order) == MathAbs(MiddleSine(q, order)) = One

\* the middle angle of a triple, for the order
MiddleAngle(x, y, z, order) ==
  CASE order \in {"XYZ", "ZYX"} -> y
    [] order \in {"YXZ", "ZXY"} -> x
    [] order \in {"YZX", "XZY"} -> z

\* an angle that is a number: its cosine and its sine are numbers on the circle
DefinedAngle(a) ==
  /\ IsNum(a.c)
  /\ IsNum(a.s)
  /\ Add(Mul(a.c, a.c), Mul(a.s, a.s)) = One

\* the round trips that ended: eulerToQuaternion(quaternionToEuler(q, order), order2),
\* as <<q, order, order2, result>>, q not itself the result of a call
RoundTrips ==
  IF /\ call.fn = "eulerToQuaternion"
     /\ call.result.kind = "return"
     /\ call.origin.fn = "quaternionToEuler"
     /\ call.origin.origin = NoCall
  THEN {<<call.origin.args[1], call.origin.args[2], call.args[4], call.result.value>>}
  ELSE {}

\* C14: for a unit quaternion q that is not a gimbal-lock configuration of
\* the order, eulerToQuaternion of quaternionToEuler(q, order), with the same
\* order, is q or -q (each of the six orders).
C14_EulerRoundTrip ==
  \A t \in RoundTrips :
    (IsUnit(t[1]) /\ ~GimbalLock(t[1], t[2]) /\ t[3] = t[2]) => SameUpToSign(t[4], t[1])

\* C14 witness: a round trip with another order that does not return q or -q,
\* of a q that the same order does return
C14_Witness ==
  \E t \in RoundTrips :
    /\ IsUnit(t[1])
    /\ ~GimbalLock(t[1], t[2])
    /\ t[3] # t[2]
    /\ ~SameUpToSign(t[4], t[1])
    /\ SameUpToSign(eulerToQuaternion(call.args[1], call.args[2], call.args[3], t[2]), t[1])
    /\ t[1] \notin UnitQuats

\* the round trips from a triple that ended:
\* eulerToQuaternion(quaternionToEuler(eulerToQuaternion(e, order), order), order),
\* as <<e, order, q, e2, q2>> with e and e2 the arguments of the two calls
TripleRoundTrips ==
  IF /\ call.fn = "eulerToQuaternion"
     /\ call.result.kind = "return"
     /\ call.origin.fn = "quaternionToEuler"
     /\ call.origin.origin.fn = "eulerToQuaternion"
     /\ call.args[4] = call.origin.args[2]
  THEN {<<call.origin.origin.args, call.args[4], call.origin.args[1],
          call.origin.result.value, call.result.value>>}
  ELSE {}

\* C15: for a triple e whose middle angle is +90 or -90 degrees and
\* q = eulerToQuaternion(e, order), the triple e2 = quaternionToEuler(q, order)
\* has three defined angles and eulerToQuaternion(e2, order) is q or -q.
C15_GimbalLock ==
  \A t \in TripleRoundTrips :
    MiddleAngle(t[1][1], t[1][2], t[1][3], t[2]).c = Zero =>
      /\ DefinedAngle(t[4].x) /\ DefinedAngle(t[4].y) /\ DefinedAngle(t[4].z)
      /\ SameUpToSign(t[5], t[3])

\* C15 witness: a triple at gimbal lock whose round trip returns other angles
\* and the same rotation
C15_Witness ==
  \E t \in TripleRoundTrips :
    /\ MiddleAngle(t[1][1], t[1][2], t[1][3], t[2]).c = Zero
    /\ GimbalLock(t[3], t[2])
    /\ t[4] # EulerAngles(t[1][1], t[1][2], t[1][3])
    /\ SameUpToSign(t[5], t[3])

\* the calls on objects that ended, as <<fn, heap before, args, heap after, ref>>
ObjectCalls ==
  IF call.fn \in ObjectFunctions /\ call.result.kind = "return"
  THEN {<<call.fn, call.heap, call.args, call.result.value.heap, call.result.value.ref>>}
  ELSE {}

\* C17: no function changes the objects it is given, and each returns a new
\* object: applyTransform(A, B) leaves A and B as they were and returns a new
\* matrix, their product; createTransformMatrix, matrixToPose,
\* normalizeQuaternion and identityPose return new objects; and a write to the
\* pose of one identityPose() call leaves the pose of the other call alone.
C17_NoMutation ==
  /\ \A o \in ObjectCalls :
       /\ \A ref \in DOMAIN o[2] : o[4][ref] = o[2][ref]
       /\ o[5] \notin DOMAIN o[2]
       /\ o[1] = "applyTransform" => o[4][o[5]] = applyTransform(o[2][o[3][1]], o[2][o[3][2]])
  /\ call.fn = "write" =>
       /\ call.origin.result.value.ref # call.args[1]
       /\ call.result.value.heap[call.origin.result.value.ref] = identityPose

\* C17 witness: applyTransform ran on two matrices and returned a third,
\* which differs from both
C17_Witness ==
  \E o \in ObjectCalls :
    /\ o[1] = "applyTransform"
    /\ o[3] = <<1, 2>>
    /\ o[4][3] # o[2][1]
    /\ o[4][3] # o[2][2]
    /\ o[4][1] = o[2][1]

\* C18: in every state the result pose that is shown is
\* matrixToPose(applyTransform(createTransformMatrix(inputPose),
\* createTransformMatrix(transform))) of the inputPose and the transform of
\* that state, and the three matrices that are shown are the matrixToArray
\* of the matrices of that state: no memoized value is stale.
C18_NeverStale ==
  \A now \in {<<createTransformMatrix(inputPose), createTransformMatrix(transform)>>} :
    \A product \in {applyTransform(now[1], now[2])} :
      /\ resultPose = matrixToPose(product)
      /\ inputMatrixArray = matrixToArray(now[1])
      /\ transformMatrixArray = matrixToArray(now[2])
      /\ resultMatrixArray = matrixToArray(product)

\* C18 witness: both poses were edited, and the result that is shown is
\* that of the two, which is neither of them
C18_Witness ==
  /\ inputPose.position = Vec(One, Zero, Zero)
  /\ inputPose.quaternion = RotZ90
  /\ transform.position = Vec(One, Zero, Zero)
  /\ memo.resultPose = <<inputPose, transform>>
  /\ resultPose = Pose(Vec(One, One, Zero), RotZ90)
  /\ resultMatrixArray[1][4] = One
  /\ resultMatrixArray[2][4] = One

\* C19: a click on 'Use as New Input' sets, in one step, inputPose to the
\* result pose shown at the click and transform to the identity transform.
C19_UseAsInput ==
  [][handleUseAsInput =>
       /\ inputPose' = resultPose
       /\ transform' = identityTransform
       /\ transform' = Pose(Vec(Zero, Zero, Zero), Quat(Zero, Zero, Zero, One))]_vars

\* C19 witness: the input pose holds the result of the pose (0, RotX90) and
\* the transform ((0, 0, 1), identity): the position (0, -1, 0), which no
\* edit gives, and the transform is the identity
C19_Witness ==
  /\ inputPose = Pose(Vec(Zero, Int2Num(-1), Zero), RotX90)
  /\ transform = identityTransform
  /\ resultPose = inputPose

\* C20: in quaternion mode the warning with |q| and the Normalize action are
\* shown exactly when isQuaternionNormalized(quaternion) is false and
\* quaternionMagnitude(quaternion) > 0; the button is hidden when the input
\* is disabled.
C20_WarningShown ==
  \A card \in Cards :
    rotationMode[card] = "quaternion" =>
      \A shown \in {/\ ~isQuaternionNormalized(CardPose(card).quaternion, DefaultTolerance)
                     /\ Gt(quaternionMagnitude(CardPose(card).quaternion), Zero)} :
        /\ WarningShown(card) <=> shown
        /\ NormalizeButtonShown(card, FALSE) <=> shown
        /\ ~NormalizeButtonShown(card, TRUE)

\* C20 witness: one card shows the warning for a quaternion of magnitude 2,
\* the other holds the zero quaternion and shows none
C20_Witness ==
  /\ rotationMode["pose"] = "quaternion"
  /\ rotationMode["transform"] = "quaternion"
  /\ inputPose.quaternion = Quat(Zero, Zero, Zero, Two)
  /\ transform.quaternion = Quat(Zero, Zero, Zero, Zero)
  /\ WarningShown("pose")
  /\ NormalizeButtonShown("pose", FALSE)
  /\ ~WarningShown("transform")

\* C21: 'Reset to Origin' sets inputPose to position (0,0,0), quaternion
\* (0,0,0,1) and leaves transform as it was; 'Reset to Identity' sets transform
\* to position (0,0,0), quaternion (0,0,0,1) and leaves inputPose as it was;
\* when both hold these values the result pose that is shown is the identity
\* pose.
C21_Resets ==
  /\ [][(handleResetPose =>
            /\ inputPose' = Pose(Vec(Zero, Zero, Zero), Quat(Zero, Zero, Zero, One))
            /\ transform' = transform)
        /\ (handleResetTransform =>
              /\ transform' = Pose(Vec(Zero, Zero, Zero), Quat(Zero, Zero, Zero, One))
              /\ inputPose' = inputPose)]_vars
  /\ [](/\ inputPose = Pose(Vec(Zero, Zero, Zero), Quat(Zero, Zero, Zero, One))
        /\ transform = Pose(Vec(Zero, Zero, Zero), Quat(Zero, Zero, Zero, One))
        => resultPose = Pose(Vec(Zero, Zero, Zero), Quat(Zero, Zero, Zero, One)))

\* C21 witness: 'Reset to Origin' was clicked on an input pose that was moved
\* and turned, the transform stayed: the result shown is the transform's pose
C21_Witness ==
  /\ inputPose = Pose(Vec(Zero, Zero, Zero), Quat(Zero, Zero, Zero, One))
  /\ transform = Pose(Vec(One, Zero, Zero), RotZ90)
  /\ memo.inputMatrix = identityPose
  /\ memo.resultPose = <<identityPose, transform>>
  /\ resultPose = transform

\* C22: after any sequence of events of the two cards (typing in the number
\* fields, Euler edits, Normalize, Reset, 'Use as New Input'), no component of
\* the position or of the quaternion of inputPose or of transform is NaN.
C22_NoNaN ==
  \A n \in NumsOfPose(inputPose) \cup NumsOfPose(transform) : ~IsNaN(n)

\* C23: whenever a PoseInput is in quaternion mode (its effects have run),
\* its eulerAngles are quaternionToEuler(quaternion, eulerOrder) of its
\* quaternion and its order; so a switch to the Euler mode shows the angles
\* of the quaternion the card holds.
C23_EulerSync ==
  /\ [](\A card \in Cards :
          rotationMode[card] = "quaternion" =>
            eulerAngles[card] = quaternionToEuler(PoseOf(card).quaternion, eulerOrder[card]))
  /\ [][\A card \in Cards :
          rotationMode[card] = "quaternion" /\ rotationMode'[card] = "euler" =>
            eulerAngles'[card] =
              quaternionToEuler(PoseOf(card).quaternion, eulerOrder[card])]_vars

\* C23 witness: the PoseCard is back in quaternion mode with the order ZYX,
\* selected in the Euler mode, and a quaternion that is not the identity; its
\* angles are those of the quaternion, 90 degrees about X
C23_Witness ==
  /\ rotationMode["pose"] = "quaternion"
  /\ eulerOrder["pose"] = "ZYX"
  /\ inputPose.quaternion = RotX90
  /\ eulerAngles["pose"] = EulerAngles(Angle(Zero, One), AngleZero, AngleZero)
  /\ eulerAngles["pose"] = quaternionToEuler(inputPose.quaternion, "ZYX")

\* C24: while a PoseInput is in Euler mode, after any sequence of events, its
\* angles under its order give the quaternion of its card:
\* eulerToQuaternion(eulerAngles, eulerOrder) is the quaternion or its opposite.
C24_EulerRepresents ==
  \A card \in Cards :
    rotationMode[card] = "euler" =>
      SameUpToSign(eulerToQuaternion(eulerAngles[card].x, eulerAngles[card].y,
                                     eulerAngles[card].z, eulerOrder[card]),
                   PoseOf(card).quaternion)

\* the result pose shown by a render whose memo is m
ShownResult(m) ==
  matrixToPose(applyTransform(createTransformMatrix(m.resultPose[1]),
                              createTransformMatrix(m.resultPose[2])))

\* the same position, and the same quaternion up to sign
SameResult(a, b) ==
  /\ a.position = b.position
  /\ SameUpToSign(a.quaternion, b.quaternion)

C26_CopyLifecycle ==
  [][/\ \A ind \in Indicators :
          /\ (~copied[ind] /\ copied'[ind]
                 => /\ writes'[ind] = writes[ind] - 1
                    /\ consoleErrors' = consoleErrors
                    /\ timers'[ind] = Append(timers[ind], clock + 2000))
          /\ (copied[ind] /\ ~copied'[ind]
                 => /\ timers[ind] # <<>>
                    /\ timers'[ind] = Tail(timers[ind])
                    /\ clock >= Head(timers[ind]))
     /\ (consoleErrors' # consoleErrors
            => /\ consoleErrors' = consoleErrors + 1
               /\ copied' = copied
               /\ timers' = timers)
     /\ (copied' # copied \/ writes' # writes \/ timers' # timers
          \/ consoleErrors' # consoleErrors
            => /\ collapsed' = collapsed
               /\ inputPose' = inputPose
               /\ transform' = transform)]_vars

\* C26 witness: a write of the matrix has failed and was logged, its flag is
\* false; the position was copied 1000 ms ago, its flag is true and its timer
\* is due in 1000 ms; the panel was collapsed and the pose was edited
C26_Witness ==
  /\ consoleErrors = 1
  /\ copied = [ind \in Indicators |-> ind = "copiedPos"]
  /\ timers["copiedPos"] = <<2000>>
  /\ clock = 1000
  /\ collapsed
  /\ inputPose.position.x = One

\* C27: while a timer started by a successful copy has not fired, the
\* 'Copied' indicator of its button is true: no timer of an earlier copy
\* resets the indicator of a later copy.
C27_IndicatorOutlivesEarlierTimer ==
  \A ind \in Indicators : timers[ind] # <<>> => copied[ind]

\* the required extent of the grid: the largest of |x| and |y| of the input
\* and the result position, and 10 m
RequiredExtent(inputPos, resultPos) ==
  MathMax({mmAbs(inputPos.x), mmAbs(inputPos.y),
           mmAbs(resultPos.x), mmAbs(resultPos.y), mm(10000)})

\* a >= b of two lengths: false when one of them is NaN
AtLeast(a, b) == ~a.nan /\ ~b.nan /\ a.mm >= b.mm

\* C28: after every animation frame the half-size of the grid that is in the
\* scene is at least the required extent of the positions shown, and no step
\* decreases the recorded grid extent.
C28_GridCovers ==
  [][/\ (animationFrame
           => AtLeast(mm(scene'.gridSize.mm), 
                      mm(2 * RequiredExtent(scene'.inputPos, scene'.resultPos).mm))
              /\ ~scene'.gridSize.nan
              /\ ~RequiredExtent(scene'.inputPos, scene'.resultPos).nan)
     /\ AtLeast(scene'.gridExtent, scene.gridExtent)]_vars

\* C29: a step that clears the animation targets has put the camera and the
\* orbit target onto them and clears both; and whenever the animation
\* targets are set they are cleared later, once the props have stopped
\* changing.
C29_FitTerminates ==
  /\ [][scene.targetCameraPos # <<>> /\ scene'.targetCameraPos = <<>>
          => /\ scene'.targetControlsTarget = <<>>
             /\ scene'.cameraPosition = scene.targetCameraPos[1]
             /\ scene'.controlsTarget = scene.targetControlsTarget[1]]_vars
  /\ (scene.targetCameraPos # <<>> ~> scene.targetCameraPos = <<>>)

====
